---- MODULE Spec2Model ----
(***************************************************************************)
(* The sequential analysis queue of Arakne (queue-service.ts), its merge   *)
(* engine and the handler installed by queue-adapter.ts.                   *)
(*                                                                         *)
(* JavaScript runs the service on one thread.  Every public call and every *)
(* continuation of the async processNextTask runs to its next await; the   *)
(* only re-entrancy is through subscriber callbacks, which are called      *)
(* synchronously and may call the service again.  The model keeps the call *)
(* stack of the running code in `stack` (innermost frame first): one       *)
(* action per synchronous segment of code between two notifications, and   *)
(* the frame on top decides which segment runs next.  When the stack is    *)
(* empty no service code runs and the environment (a caller, or the        *)
(* backend settling the in-flight request) takes the next step.            *)
(***************************************************************************)
EXTENDS Integers, Sequences, FiniteSets, TLC

VARIABLES
    tasks,                     \* the AnalysisTask objects, by creation number
    queue,                     \* this.queue: task references, oldest first
    taskHistory,               \* this.taskHistory: the same references, newest first
    currentTask,               \* this.currentTask (0 is null)
    isProcessing,              \* this.isProcessing
    previousResults,           \* this.previousResults
    onTaskCompletedCallbacks,  \* this.onTaskCompletedCallbacks
    onQueueChangedCallbacks,   \* this.onQueueChangedCallbacks
    stack,                     \* frames of the running code, innermost first
    handlers,                  \* processTask invocations awaiting the backend
    copy,                      \* what a caller holds from getPreviousResults()
    startLog,                  \* history: tasks handed to a handler and by whom, in order
    completionLog,             \* history: tasks that became 'completed' since the last reset
    dueNotif,                  \* history: <<callback, task>> calls due and not made yet
    strayNotif,                \* history: an onTaskCompleted call was made that was not due
    resets,                    \* history: number of resetPreviousResults calls
    heap,                      \* the entity and relationship objects of a mergeResults call
    mergeCall,                 \* a mergeResults call: its arguments and what it returned
    responses                  \* history: the backend response each handler was given

\* The queue model keeps results as values and takes the normalized results of
\* the backend as given.  What mergeResults does to the objects it is given is
\* modelled on its own, on `heap` and `mergeCall`, and what formatResult makes of a
\* backend response is recorded in `responses`; the queue model leaves the three
\* alone.
engineVars == <<heap, mergeCall, responses>>

queueVars == <<tasks, queue, taskHistory, currentTask, isProcessing, previousResults,
               onTaskCompletedCallbacks, onQueueChangedCallbacks, stack, handlers,
               copy, startLog, completionLog, dueNotif, strayNotif, resets>>

vars == <<tasks, queue, taskHistory, currentTask, isProcessing, previousResults,
          onTaskCompletedCallbacks, onQueueChangedCallbacks, stack, handlers,
          copy, startLog, completionLog, dueNotif, strayNotif, resets, heap, mergeCall,
          responses>>

(***************************************************************************)
(* Bounds of the model.                                                    *)
(***************************************************************************)
MaxTasks == 3
MaxResets == 1
MaxSubscriptions == 1

(***************************************************************************)
(* Data model.  A strength is kept in halves (8 stands for 4.0), which is  *)
(* exact for `existing + incoming * 0.5` on the integer strengths the      *)
(* backend is asked for.  A summary is a sequence of characters; the empty *)
(* sequence is the absent or empty (falsy) summary.                        *)
(***************************************************************************)
Half == 2

STRENGTH_CAP == 10

\* task.result, or a value not read yet, when nothing was assigned.
NoResult == [undefined |-> TRUE]

NoError == "undefined"

\* No mergeResults call is followed object by object.
NoCall == [pc |-> "none"]

TaskTypes == {"text"}

Entity(id, aliases, summary) ==
    [id |-> id, name |-> id, type |-> "person", aliases |-> aliases, summary |-> summary]

Relationship(source, target, strength) ==
    [id |-> <<"rel", source, target>>, source |-> source, target |-> target,
     strength |-> strength * Half]

EmptyResult == [entities |-> <<>>, relationships |-> <<>>]

\* What analyzer.analyzeText can resolve with: normalized results of the backend.
ResultA ==
    [entities |-> <<Entity("a", <<"x">>, <<"s">>)>>, relationships |-> <<>>]

ResultB ==
    [entities |-> <<Entity("a", <<"y">>, <<"s", "s">>), Entity("b", <<>>, <<>>)>>,
     relationships |-> <<Relationship("a", "b", 4)>>]

BackendResults == {ResultA, ResultB}

BackendErrors == {"Error calling DeepSeek API"}

CallbackIds == {"f"}

(***************************************************************************)
(* Sequence helpers.                                                       *)
(***************************************************************************)
\* Where a recursion hands an intermediate value on, the value is bound through
\* a one-element set ({e : x \in {v}}) so that it is computed once.
Range(s) == {s[i] : i \in DOMAIN s}

\* Array.prototype.findIndex: the first index whose element is one of `passing`
\* (the elements the test accepts), 0 for -1.
findIndex(s, passing) ==
    IF \A i \in DOMAIN s : s[i] \notin passing THEN 0
    ELSE CHOOSE i \in DOMAIN s :
             s[i] \in passing /\ \A j \in 1..(i - 1) : s[j] \notin passing

Min(a, b) == IF a <= b THEN a ELSE b

\* [...s]: every value as often as it comes.
WithDuplicates(s) == s

RECURSIVE Dedup(_)
\* [...new Set(s)]: each value once, at the place of its first occurrence.
Dedup(s) ==
    IF s = <<>> THEN <<>>
    ELSE LET last == s[Len(s)]
         IN CHOOSE r \in {IF last \in Range(init) THEN init ELSE Append(init, last) :
                          init \in {Dedup(SubSeq(s, 1, Len(s) - 1))}} : TRUE

\* Map.prototype.set on a map kept as the sequence of its values, keyed by id:
\* an existing key keeps its place, a new key goes last.
MapSet(m, v) ==
    CHOOSE r \in {LET i == findIndex(map, {e \in Range(map) : e.id = v.id})
                  IN IF i = 0 THEN Append(map, v) ELSE [map EXCEPT ![i] = v] :
                  map \in {m}} : TRUE

MapHas(m, id) == \E i \in DOMAIN m : m[i].id = id

MapGet(m, id) == m[findIndex(m, {e \in Range(m) : e.id = id})]

RECURSIVE MapFrom(_)
\* previous.<list>.forEach(x => map.set(x.id, { ...x }))
MapFrom(s) ==
    IF s = <<>> THEN <<>>
    ELSE MapSet(MapFrom(SubSeq(s, 1, Len(s) - 1)), s[Len(s)])

\* The summary replaced as soon as the incoming one is as long as the existing one.
ReplacesOnEqualLength(existing, entity) ==
    [existing EXCEPT
        !.aliases = Dedup(existing.aliases \o entity.aliases),
        !.summary = IF entity.summary # <<>>
                       /\ Len(entity.summary) >= Len(existing.summary)
                    THEN entity.summary
                    ELSE existing.summary]

\* The name of the incoming entity taken over with its aliases and summary.
TakesIncomingName(existing, entity) ==
    [entity EXCEPT
        !.aliases = Dedup(existing.aliases \o entity.aliases),
        !.summary = IF entity.summary # <<>>
                       /\ (existing.summary = <<>>
                           \/ Len(entity.summary) > Len(existing.summary))
                    THEN entity.summary
                    ELSE existing.summary]

(***************************************************************************)
(* mergeResults                                                            *)
(***************************************************************************)
\* The entity stored for an incoming entity whose id is already in the map.
MergeEntity(existing, entity) ==
    [existing EXCEPT
        !.aliases = Dedup(existing.aliases \o entity.aliases),
        !.summary = IF entity.summary # <<>>
                       /\ (existing.summary = <<>>
                           \/ Len(entity.summary) > Len(existing.summary))
                    THEN entity.summary
                    ELSE existing.summary]

\* existingRel.strength + rel.strength, capped: the incoming strength added whole.
AddsWholeStrength(existing, rel) ==
    [existing EXCEPT
        !.strength = Min(STRENGTH_CAP * Half, existing.strength + rel.strength)]

\* The existing relationship left as it is.
Unreinforced(existing, rel) == existing

\* existingRel.strength + rel.strength * 0.5 without Math.min.
Uncapped(existing, rel) ==
    [existing EXCEPT !.strength = existing.strength + rel.strength \div Half]

\* The relationship stored for an incoming relationship whose id is already in the map.
MergeRelationship(existing, rel) ==
    [existing EXCEPT
        !.strength = Min(STRENGTH_CAP * Half, existing.strength + rel.strength \div Half)]

RECURSIVE MergeEntities(_, _)
MergeEntities(map, incoming) ==
    IF incoming = <<>> THEN map
    ELSE LET entity == Head(incoming)
             next == IF MapHas(map, entity.id)
                     THEN MapSet(map, MergeEntity(MapGet(map, entity.id), entity))
                     ELSE MapSet(map, entity)
         IN CHOOSE r \in {MergeEntities(set, Tail(incoming)) : set \in {next}} : TRUE

RECURSIVE MergeRelationships(_, _)
MergeRelationships(map, incoming) ==
    IF incoming = <<>> THEN map
    ELSE LET rel == Head(incoming)
             next == IF MapHas(map, rel.id)
                     THEN MapSet(map, MergeRelationship(MapGet(map, rel.id), rel))
                     ELSE MapSet(map, rel)
         IN CHOOSE r \in {MergeRelationships(set, Tail(incoming)) : set \in {next}} : TRUE

\* The incoming result in place of the merged one.
KeepsIncomingOnly(previous, current) == current

\* The entity ids and the relationship ids of a result.
EntityIds(result) == {e.id : e \in Range(result.entities)}

RelationshipIds(result) == {r.id : r \in Range(result.relationships)}

\* The first result kept, later ones ignored.
KeepsFirstResult(previous, current) ==
    IF previous.entities = <<>> THEN current ELSE previous

\* The incoming lists appended to the previous ones.
Concatenates(previous, current) ==
    [entities |-> previous.entities \o current.entities,
     relationships |-> previous.relationships \o current.relationships]

\* Lines 161-208 on values.
mergeResults(previous, current) ==
    [entities |-> MergeEntities(MapFrom(previous.entities), current.entities),
     relationships |->
         MergeRelationships(MapFrom(previous.relationships), current.relationships)]

(***************************************************************************)
(* Frames of the call stack.                                               *)
(*   addTask             the call is past its notification (line 49)       *)
(*   processNextTask     pc names the segment to run next; historyIndex is *)
(*                       the local constant                                *)
(*                       of line 94, caller the method that called it, got *)
(*                       the cumulative context when the task was marked   *)
(*                       processing or, in the success path, completed     *)
(*                       (history only)                                    *)
(*   notifyQueueChanged, notifyTaskCompleted                               *)
(*                       a forEach over the array as it was at the call;   *)
(*                       rest holds the callbacks still to call, called    *)
(*                       the callbacks called so far, caller the place of  *)
(*                       the call ("finally" is line 138), task the task   *)
(*                       the notification is about, before the state at a  *)
(*                       resetPreviousResults call (called, caller, task   *)
(*                       of a queue-changed notification and before are    *)
(*                       history only)                                     *)
(*   callback            a subscriber's code is running; got is what its   *)
(*                       getPreviousResults() call returned                *)
(***************************************************************************)
Frame(op, pc) ==
    [op |-> op, pc |-> pc, historyIndex |-> 0, caller |-> "", rest |-> <<>>,
     called |-> <<>>, before |-> NoResult, task |-> 0, callback |-> "",
     error |-> NoError, got |-> NoResult]

NotifyFrame(op, callbacks, task) ==
    [Frame(op, "forEach") EXCEPT !.rest = callbacks, !.task = task]

\* A notification that calls nobody.
NoNotification(caller, task) ==
    [NotifyFrame("notifyQueueChanged", <<>>, task) EXCEPT !.caller = caller]

\* A call of this.notifyQueueChanged().
QueueChanged(caller, task) ==
    [NotifyFrame("notifyQueueChanged", onQueueChangedCallbacks, task) EXCEPT
        !.caller = caller]

Push(frames, onto) == frames \o onto

\* A caller of the public interface: code outside the service when nothing of the
\* service runs, or the subscriber callback that is running.
CanCall ==
    IF stack = <<>> THEN TRUE
    ELSE Head(stack).op = "callback" /\ Head(stack).got = NoResult

Running(op, pc) == stack # <<>> /\ Head(stack).op = op /\ Head(stack).pc = pc

Pending(t) == tasks[t].status = "pending"

FirstPendingIndex == findIndex(queue, {t \in Range(queue) : Pending(t)})

\* getPreviousResults(): { ...this.previousResults }, a new object whose entities
\* and relationships are the arrays of the cumulative context themselves.
getPreviousResults ==
    [entities |-> previousResults.entities,
     relationships |-> previousResults.relationships]

\* getTasks(), lines 63-65: the queue's pending and processing tasks.
ActiveQueue ==
    SelectSeq(queue, LAMBDA t : tasks[t].status \in {"pending", "processing"})

\* The history with nothing filtered out.
WholeHistory == taskHistory

\* getTasks(), lines 68-69: the history entries whose id is not an active one.
HistoryWithoutActive ==
    SelectSeq(taskHistory, LAMBDA t : t \notin Range(ActiveQueue))

\* getTasks(), line 71.
getTasks == ActiveQueue \o HistoryWithoutActive

\* Replacing this.previousResults leaves a caller's copy with the old arrays.
Detached == IF copy = "aliased" THEN "detached" ELSE copy

Init ==
    /\ tasks = <<>>
    /\ queue = <<>>
    /\ taskHistory = <<>>
    /\ currentTask = 0
    /\ isProcessing = FALSE
    /\ previousResults = EmptyResult
    /\ onTaskCompletedCallbacks = <<>>
    /\ onQueueChangedCallbacks = <<>>
    /\ stack = <<>>
    /\ handlers = {}
    /\ copy = "none"
    /\ startLog = <<>>
    /\ completionLog = <<>>
    /\ dueNotif = <<>>
    /\ strayNotif = FALSE
    /\ resets = 0
    /\ heap = <<>>
    /\ mergeCall = NoCall
    /\ responses = <<>>

(***************************************************************************)
(* addTask                                                                 *)
(***************************************************************************)
\* array.push(item) in place of line 48: the newest task last.
pushed(array, item) == Append(array, item)

\* Line 48: array.unshift(item), the newest task first.
unshift(array, item) == <<item>> \o array

\* Lines 37-49: create the task, push it on the queue, unshift it on the history,
\* notify.  The id is unique; the task's creation number stands for it.
addTask(type) ==
    /\ CanCall
    /\ Len(tasks) < MaxTasks
    /\ LET id == Len(tasks) + 1
       IN /\ tasks' = Append(tasks, [type |-> type, status |-> "pending",
                                     result |-> NoResult, error |-> NoError])
          /\ queue' = Append(queue, id)
          /\ taskHistory' = unshift(taskHistory, id)
    /\ stack' = Push(<<QueueChanged("addTask", 0),
                       Frame("addTask", "afterNotify")>>, stack)
    /\ UNCHANGED <<currentTask, isProcessing, previousResults,
                   onTaskCompletedCallbacks, onQueueChangedCallbacks, handlers, copy,
                   startLog, completionLog, dueNotif, strayNotif, resets>>
    /\ UNCHANGED engineVars

\* Processing started only for a task that is alone in the queue.
StartsOnFirstTaskOnly == Len(queue) = 1

\* Line 52: start processing if no task is currently running.
StartsProcessing == ~isProcessing

\* Lines 51-56.
addTaskStart ==
    /\ Running("addTask", "afterNotify")
    /\ stack' = IF StartsProcessing
                THEN Push(<<[Frame("processNextTask", "start") EXCEPT
                                !.caller = "addTask"]>>, Tail(stack))
                ELSE Tail(stack)
    /\ UNCHANGED <<tasks, queue, taskHistory, currentTask, isProcessing,
                   previousResults, onTaskCompletedCallbacks, onQueueChangedCallbacks,
                   handlers, copy, startLog, completionLog, dueNotif, strayNotif,
                   resets>>
    /\ UNCHANGED engineVars

(***************************************************************************)
(* processNextTask                                                         *)
(***************************************************************************)
\* The early return without the test of the single-flight flag.
ReturnsEarlyOnEmptyQueue == Len(queue) = 0

\* Line 79: the early return.
ReturnsEarly == Len(queue) = 0 \/ isProcessing

\* Lines 79-99: pick the first pending task, mark it processing, notify.
processNextTaskStart ==
    /\ Running("processNextTask", "start")
    /\ IF ReturnsEarly \/ FirstPendingIndex = 0
       THEN /\ stack' = Tail(stack)
            /\ UNCHANGED <<tasks, currentTask, isProcessing>>
       ELSE LET t == queue[FirstPendingIndex]
                historyIndex == findIndex(taskHistory, {t})
            IN /\ isProcessing' = TRUE
               /\ currentTask' = t
               /\ tasks' = [tasks EXCEPT ![t].status = "processing"]
               /\ stack' = Push(
                      <<QueueChanged("processNextTask", 0),
                        [Head(stack) EXCEPT
                            !.pc = "invoke", !.historyIndex = historyIndex,
                            !.got = previousResults]>>,
                      Tail(stack))
    /\ UNCHANGED <<queue, taskHistory, previousResults, onTaskCompletedCallbacks,
                   onQueueChangedCallbacks, handlers, copy, startLog, completionLog,
                   dueNotif, strayNotif, resets>>
    /\ UNCHANGED engineVars

\* The prior context of an analyzer created without one (deepseek-api.ts line 41).
DefaultContext == EmptyResult

\* The prior context the adapter hands to the backend (queue-adapter.ts line 27).
HandlerContext == getPreviousResults

\* Line 104 up to the await: processTask(this.currentTask) runs the adapter up to
\* its request to the backend, which carries the prior context read now; the async
\* function is suspended and returns to its caller.
processNextTaskInvoke ==
    /\ Running("processNextTask", "invoke")
    /\ handlers' = handlers \cup
           {[task |-> currentTask, context |-> HandlerContext,
             historyIndex |-> Head(stack).historyIndex,
             dequeuedWith |-> Head(stack).got]}
    /\ startLog' = Append(startLog, [task |-> currentTask,
                                     caller |-> Head(stack).caller])
    /\ stack' = Tail(stack)
    /\ UNCHANGED <<tasks, queue, taskHistory, currentTask, isProcessing,
                   previousResults, onTaskCompletedCallbacks, onQueueChangedCallbacks,
                   copy, completionLog, dueNotif, strayNotif, resets>>
    /\ UNCHANGED engineVars

\* The backend answers and the adapter stores the normalized result on the task
\* (queue-adapter.ts lines 39 and 157); processNextTask resumes after its await.
HandlerResolves(h, result) ==
    /\ stack = <<>>
    /\ h \in handlers
    /\ handlers' = handlers \ {h}
    /\ tasks' = [tasks EXCEPT ![h.task].result = result]
    /\ stack' = <<[Frame("processNextTask", "success") EXCEPT
                      !.historyIndex = h.historyIndex]>>
    /\ UNCHANGED <<queue, taskHistory, currentTask, isProcessing, previousResults,
                   onTaskCompletedCallbacks, onQueueChangedCallbacks, copy, startLog,
                   completionLog, dueNotif, strayNotif, resets>>
    /\ UNCHANGED engineVars

\* The request fails and the handler rethrows (queue-adapter.ts lines 158-161).
HandlerRejects(h, error) ==
    /\ stack = <<>>
    /\ h \in handlers
    /\ handlers' = handlers \ {h}
    /\ stack' = <<[Frame("processNextTask", "catch") EXCEPT
                      !.historyIndex = h.historyIndex, !.error = error]>>
    /\ UNCHANGED <<tasks, queue, taskHistory, currentTask, isProcessing,
                   previousResults, onTaskCompletedCallbacks, onQueueChangedCallbacks,
                   copy, startLog, completionLog, dueNotif, strayNotif, resets>>
    /\ UNCHANGED engineVars

\* The task object that this.taskHistory[historyIndex] denotes now.
HistoryEntry(historyIndex) == taskHistory[historyIndex]

\* Lines 106-114: the statuses and results after the success assignments.
MarkCompleted(historyIndex) ==
    LET entry == HistoryEntry(historyIndex)
        done == [tasks EXCEPT ![currentTask].status = "completed"]
        mirrored == [done EXCEPT ![entry].status = "completed"]
    IN IF done[currentTask].result # NoResult
       THEN [mirrored EXCEPT ![entry].result = done[currentTask].result]
       ELSE mirrored

\* Lines 126-133: the statuses and errors after the failure assignments.
MarkFailed(historyIndex, error) ==
    LET entry == HistoryEntry(historyIndex)
        failed == [tasks EXCEPT ![currentTask].status = "failed",
                                ![currentTask].error = error]
    IN [failed EXCEPT ![entry].status = "failed", ![entry].error = error]

\* The tasks whose status the step turns into 'completed', the current one first.
NewlyCompleted(after) ==
    LET changed(t) == tasks[t].status # "completed" /\ after[t].status = "completed"
        others == {t \in DOMAIN tasks : t # currentTask /\ changed(t)}
        first == IF changed(currentTask) THEN <<currentTask>> ELSE <<>>
    IN IF others = {} THEN first ELSE Append(first, CHOOSE t \in others : TRUE)

RECURSIVE Due(_, _)
\* One <<callback, task>> per registration, task by task.
Due(completed, callbacks) ==
    IF completed = <<>> THEN <<>>
    ELSE [i \in DOMAIN callbacks |-> <<callbacks[i], Head(completed)>>]
         \o Due(Tail(completed), callbacks)

\* Lines 106-117: mark the task completed, mirror it into the history, notify the
\* completion subscribers.  With currentTask null the assignment of line 106 throws
\* and control passes to the catch block.
processNextTaskSuccess ==
    /\ Running("processNextTask", "success")
    /\ IF currentTask = 0
       THEN /\ stack' = Push(<<[Head(stack) EXCEPT !.pc = "catch"]>>, Tail(stack))
            /\ UNCHANGED <<tasks, completionLog, dueNotif>>
       ELSE LET after == MarkCompleted(Head(stack).historyIndex)
            IN /\ tasks' = after
               /\ completionLog' = completionLog \o NewlyCompleted(after)
               /\ dueNotif' =
                      dueNotif \o Due(NewlyCompleted(after), onTaskCompletedCallbacks)
               /\ stack' = Push(
                      <<NotifyFrame("notifyTaskCompleted", onTaskCompletedCallbacks,
                                    currentTask),
                        [Head(stack) EXCEPT !.pc = "merge", !.got = previousResults]>>,
                      Tail(stack))
    /\ UNCHANGED <<queue, taskHistory, currentTask, isProcessing, previousResults,
                   onTaskCompletedCallbacks, onQueueChangedCallbacks, handlers, copy,
                   startLog, strayNotif, resets>>
    /\ UNCHANGED engineVars

\* Lines 120-122: the cumulative context after the success path.
MergedContext ==
    IF currentTask # 0 /\ tasks[currentTask].result # NoResult
    THEN mergeResults(previousResults, tasks[currentTask].result)
    ELSE previousResults

\* Lines 120-122 and 136-138: merge the result into the cumulative context, clear
\* the single-flight flag and the current task, notify.
processNextTaskMerge ==
    /\ Running("processNextTask", "merge")
    /\ previousResults' = MergedContext
    /\ copy' = IF currentTask # 0 /\ tasks[currentTask].result # NoResult
               THEN Detached ELSE copy
    /\ isProcessing' = FALSE
    /\ currentTask' = 0
    /\ stack' = Push(<<QueueChanged("finally", currentTask),
                       [Head(stack) EXCEPT !.pc = "next"]>>,
                     Tail(stack))
    /\ UNCHANGED <<tasks, queue, taskHistory, onTaskCompletedCallbacks,
                   onQueueChangedCallbacks, handlers, startLog, completionLog,
                   dueNotif, strayNotif, resets>>
    /\ UNCHANGED engineVars

\* Lines 123-138: mark the task failed, mirror it into the history, clear the
\* single-flight flag and the current task, notify.
processNextTaskCatch ==
    /\ Running("processNextTask", "catch")
    /\ tasks' = IF currentTask = 0 THEN tasks
                ELSE MarkFailed(Head(stack).historyIndex, Head(stack).error)
    /\ isProcessing' = FALSE
    /\ currentTask' = 0
    /\ stack' = Push(<<QueueChanged("finally", currentTask),
                       [Head(stack) EXCEPT !.pc = "next"]>>,
                     Tail(stack))
    /\ UNCHANGED <<queue, taskHistory, previousResults, onTaskCompletedCallbacks,
                   onQueueChangedCallbacks, handlers, copy, startLog, completionLog,
                   dueNotif, strayNotif, resets>>
    /\ UNCHANGED engineVars

\* A finally block that leaves the next task to the next addTask call.
NoNextPendingTask == FALSE

\* Lines 141-142: is there a task left to process.
HasNextPendingTask == \E i \in DOMAIN queue : Pending(queue[i])

\* Lines 141-144: process the next task if there is one.
processNextTaskNext ==
    /\ Running("processNextTask", "next")
    /\ stack' = IF HasNextPendingTask
                THEN Push(<<[Frame("processNextTask", "start") EXCEPT
                                !.caller = "processNextTask"]>>, Tail(stack))
                ELSE Tail(stack)
    /\ UNCHANGED <<tasks, queue, taskHistory, currentTask, isProcessing,
                   previousResults, onTaskCompletedCallbacks, onQueueChangedCallbacks,
                   handlers, copy, startLog, completionLog, dueNotif, strayNotif,
                   resets>>
    /\ UNCHANGED engineVars

(***************************************************************************)
(* Notifications and subscriber callbacks                                  *)
(***************************************************************************)
\* Lines 233-242: callbacks.forEach(callback => callback(...)), one callback per
\* step; after the last one the notification returns.
notify ==
    /\ stack # <<>>
    /\ Head(stack).op \in {"notifyQueueChanged", "notifyTaskCompleted"}
    /\ LET top == Head(stack)
           call == <<Head(top.rest), top.task>>
       IN IF top.rest = <<>>
          THEN /\ stack' = Tail(stack)
               /\ UNCHANGED <<dueNotif, strayNotif>>
          ELSE /\ stack' = Push(
                      <<[Frame("callback", top.op) EXCEPT
                            !.callback = Head(top.rest), !.task = top.task,
                            !.caller = top.caller],
                        [top EXCEPT !.rest = Tail(top.rest),
                                    !.called = Append(top.called, Head(top.rest))]>>,
                      Tail(stack))
               /\ IF top.op # "notifyTaskCompleted"
                  THEN UNCHANGED <<dueNotif, strayNotif>>
                  ELSE IF dueNotif # <<>> /\ Head(dueNotif) = call
                  THEN dueNotif' = Tail(dueNotif) /\ UNCHANGED strayNotif
                  ELSE strayNotif' = TRUE /\ UNCHANGED dueNotif
    /\ UNCHANGED <<tasks, queue, taskHistory, currentTask, isProcessing,
                   previousResults, onTaskCompletedCallbacks, onQueueChangedCallbacks,
                   handlers, copy, startLog, completionLog, resets>>
    /\ UNCHANGED engineVars

\* A subscriber reads the cumulative context (page.tsx lines 29 and 42).  The read
\* changes nothing, so it is taken as the last thing the subscriber does.
callbackGetPreviousResults ==
    /\ stack # <<>>
    /\ Head(stack).op = "callback"
    /\ Head(stack).got = NoResult
    /\ stack' = Push(<<[Head(stack) EXCEPT !.got = getPreviousResults]>>, Tail(stack))
    /\ UNCHANGED <<tasks, queue, taskHistory, currentTask, isProcessing,
                   previousResults, onTaskCompletedCallbacks, onQueueChangedCallbacks,
                   handlers, copy, startLog, completionLog, dueNotif, strayNotif,
                   resets>>
    /\ UNCHANGED engineVars

\* The subscriber's code returns to the forEach that called it.
callbackReturn ==
    /\ stack # <<>>
    /\ Head(stack).op = "callback"
    /\ stack' = Tail(stack)
    /\ UNCHANGED <<tasks, queue, taskHistory, currentTask, isProcessing,
                   previousResults, onTaskCompletedCallbacks, onQueueChangedCallbacks,
                   handlers, copy, startLog, completionLog, dueNotif, strayNotif,
                   resets>>
    /\ UNCHANGED engineVars

(***************************************************************************)
(* resetPreviousResults, subscriptions                                     *)
(***************************************************************************)
\* The service's state when a resetPreviousResults call starts.
BeforeCall ==
    [tasks |-> tasks, queue |-> queue, taskHistory |-> taskHistory,
     isProcessing |-> isProcessing, previousResults |-> previousResults]

\* Line 255 with the assignment left out.
KeptContext == previousResults

\* Line 255 with the entities emptied and the relationships kept.
ClearedEntitiesOnly == [previousResults EXCEPT !.entities = <<>>]

\* Line 255: { entities: [], relationships: [] }.
ClearedContext == EmptyResult

\* Lines 254-257.
resetPreviousResults ==
    /\ CanCall
    /\ resets < MaxResets
    /\ resets' = resets + 1
    /\ previousResults' = ClearedContext
    /\ copy' = Detached
    /\ completionLog' = <<>>
    /\ stack' = Push(<<[QueueChanged("resetPreviousResults", 0) EXCEPT
                            !.before = BeforeCall]>>,
                     stack)
    /\ UNCHANGED <<tasks, queue, taskHistory, currentTask, isProcessing,
                   onTaskCompletedCallbacks, onQueueChangedCallbacks, handlers,
                   startLog, dueNotif, strayNotif>>
    /\ UNCHANGED engineVars

\* The registrations in force.
Subscribed == Len(onTaskCompletedCallbacks) + Len(onQueueChangedCallbacks)

\* Lines 213-214.
onTaskCompleted(callback) ==
    /\ stack = <<>>
    /\ Subscribed < MaxSubscriptions
    /\ onTaskCompletedCallbacks' = Append(onTaskCompletedCallbacks, callback)
    /\ UNCHANGED <<tasks, queue, taskHistory, currentTask, isProcessing,
                   previousResults, onQueueChangedCallbacks, stack, handlers, copy,
                   startLog, completionLog, dueNotif, strayNotif, resets>>
    /\ UNCHANGED engineVars

\* Lines 223-224.
onQueueChanged(callback) ==
    /\ stack = <<>>
    /\ Subscribed < MaxSubscriptions
    /\ onQueueChangedCallbacks' = Append(onQueueChangedCallbacks, callback)
    /\ UNCHANGED <<tasks, queue, taskHistory, currentTask, isProcessing,
                   previousResults, onTaskCompletedCallbacks, stack, handlers, copy,
                   startLog, completionLog, dueNotif, strayNotif, resets>>
    /\ UNCHANGED engineVars

\* callbacks.filter(cb => cb !== callback)
Without(callbacks, callback) == SelectSeq(callbacks, LAMBDA cb : cb # callback)

\* Lines 215-217: the function onTaskCompleted returned.
unsubscribeTaskCompleted(callback) ==
    /\ stack = <<>>
    /\ callback \in Range(onTaskCompletedCallbacks)
    /\ onTaskCompletedCallbacks' = Without(onTaskCompletedCallbacks, callback)
    /\ UNCHANGED <<tasks, queue, taskHistory, currentTask, isProcessing,
                   previousResults, onQueueChangedCallbacks, stack, handlers, copy,
                   startLog, completionLog, dueNotif, strayNotif, resets>>
    /\ UNCHANGED engineVars

\* Lines 225-227: the function onQueueChanged returned.
unsubscribeQueueChanged(callback) ==
    /\ stack = <<>>
    /\ callback \in Range(onQueueChangedCallbacks)
    /\ onQueueChangedCallbacks' = Without(onQueueChangedCallbacks, callback)
    /\ UNCHANGED <<tasks, queue, taskHistory, currentTask, isProcessing,
                   previousResults, onTaskCompletedCallbacks, stack, handlers, copy,
                   startLog, completionLog, dueNotif, strayNotif, resets>>
    /\ UNCHANGED engineVars

(***************************************************************************)
(* The service under callers and subscribers that use the public interface *)
(***************************************************************************)
\* The code that is running takes its next step.
Run ==
    \/ addTaskStart
    \/ processNextTaskStart
    \/ processNextTaskInvoke
    \/ processNextTaskSuccess
    \/ processNextTaskMerge
    \/ processNextTaskCatch
    \/ processNextTaskNext
    \/ notify
    \/ callbackGetPreviousResults
    \/ callbackReturn

\* The backend settles the request of the handler in flight.
Settle ==
    \/ \E h \in handlers, result \in BackendResults : HandlerResolves(h, result)
    \/ \E h \in handlers, error \in BackendErrors : HandlerRejects(h, error)

\* A call of the public interface, from outside or from a running subscriber.
Call ==
    \/ \E type \in TaskTypes : addTask(type)
    \/ resetPreviousResults
    \/ \E callback \in CallbackIds : onTaskCompleted(callback)
    \/ \E callback \in CallbackIds : onQueueChanged(callback)
    \/ \E callback \in CallbackIds : unsubscribeTaskCompleted(callback)
    \/ \E callback \in CallbackIds : unsubscribeQueueChanged(callback)

Next == Run \/ Settle \/ Call

Spec == Init /\ [][Next]_vars

(***************************************************************************)
(* The service when every handler invocation settles: running code goes on *)
(* to its next await (run to completion), and the backend answers or fails *)
(* each request.  Callers are free to stop calling.                        *)
(***************************************************************************)
FairSpec == Spec /\ WF_vars(Run) /\ WF_vars(Settle)

(***************************************************************************)
(* A caller that keeps the value getPreviousResults() returned and changes *)
(* its lists.                                                              *)
(***************************************************************************)
\* An entity no backend result holds.
Intruder == Entity("intruder", <<>>, <<>>)

\* Lines 247-249, called from outside: the caller now holds a new object with
\* the arrays of the cumulative context.  One such value is followed.
callerGetPreviousResults ==
    /\ stack = <<>>
    /\ copy = "none"
    /\ copy' = "aliased"
    /\ UNCHANGED <<tasks, queue, taskHistory, currentTask, isProcessing,
                   previousResults, onTaskCompletedCallbacks, onQueueChangedCallbacks,
                   stack, handlers, startLog, completionLog, dueNotif, strayNotif,
                   resets>>
    /\ UNCHANGED engineVars

\* The array the caller's value holds was changed: the cumulative context after
\* `held.entities.push(entity)` or `held.entities.pop()`.
SharedArrays(change) ==
    IF copy # "aliased" THEN previousResults
    ELSE IF change = "push"
    THEN [previousResults EXCEPT !.entities = Append(@, Intruder)]
    ELSE [previousResults EXCEPT
             !.entities = SubSeq(@, 1, Len(previousResults.entities) - 1)]

\* The caller changes the entities list of the value it holds.
callerMutates(change) ==
    /\ stack = <<>>
    /\ copy \in {"aliased", "detached"}
    /\ copy' = "mutated"
    /\ previousResults' = SharedArrays(change)
    /\ UNCHANGED <<tasks, queue, taskHistory, currentTask, isProcessing,
                   onTaskCompletedCallbacks, onQueueChangedCallbacks, stack, handlers,
                   startLog, completionLog, dueNotif, strayNotif, resets>>
    /\ UNCHANGED engineVars

NextCopy ==
    \/ Next
    \/ callerGetPreviousResults
    \/ \E change \in {"push", "pop"} : callerMutates(change)

SpecCopy == Init /\ [][NextCopy]_vars

(***************************************************************************)
(* A callback function that is registered a second time while it is        *)
(* registered.                                                             *)
(***************************************************************************)
\* Lines 213-214 and 223-224, for a callback the array holds already.
subscribeAgain(callback) ==
    /\ stack = <<>>
    /\ Subscribed <= MaxSubscriptions
    /\ \/ /\ callback \in Range(onTaskCompletedCallbacks)
          /\ onTaskCompletedCallbacks' = Append(onTaskCompletedCallbacks, callback)
          /\ UNCHANGED onQueueChangedCallbacks
       \/ /\ callback \in Range(onQueueChangedCallbacks)
          /\ onQueueChangedCallbacks' = Append(onQueueChangedCallbacks, callback)
          /\ UNCHANGED onTaskCompletedCallbacks
    /\ UNCHANGED <<tasks, queue, taskHistory, currentTask, isProcessing,
                   previousResults, stack, handlers, copy, startLog, completionLog,
                   dueNotif, strayNotif, resets>>
    /\ UNCHANGED engineVars

NextSubscriptions ==
    \/ Next
    \/ \E callback \in CallbackIds : subscribeAgain(callback)

SpecSubscriptions == Init /\ [][NextSubscriptions]_vars

(***************************************************************************)
(* mergeResults on objects.  An ExtractionResult is two arrays of          *)
(* references to entity and relationship objects; `heap` holds the         *)
(* objects, a reference is an index into it.  The alias arrays are kept as *)
(* values in the objects: mergeResults never changes an alias array in     *)
(* place, it assigns a new one (line 175).                                 *)
(***************************************************************************)
\* map.set(x.id, x): the object itself goes into the map.
SameObject(h, ref) == [heap |-> h, ref |-> ref]

\* { ...x }: a new object with the fields of x.
Spread(h, ref) == [heap |-> Append(h, h[ref]), ref |-> Len(h) + 1]

\* A map that lists the key set last first.
PutsFirst(h, map, ref) ==
    <<ref>> \o SelectSeq(map, LAMBDA r : h[r].id # h[ref].id)

\* map.set(id, object) on a map kept as the sequence of its values.
MapSetRef(h, map, ref) ==
    LET i == findIndex(map, {r \in Range(map) : h[r].id = h[ref].id})
    IN IF i = 0 THEN Append(map, ref) ELSE [map EXCEPT ![i] = ref]

\* map.set(x.id, { ...x }), lines 167, 181, 190 and 200.
SetCopy(st, ref) ==
    LET made == Spread(st.heap, ref)
    IN [heap |-> made.heap, map |-> MapSetRef(made.heap, st.map, made.ref)]

RECURSIVE CopyAll(_, _)
\* Lines 166-168 and 189-191: previous.<list>.forEach(x => map.set(x.id, { ...x })).
CopyAll(st, refs) ==
    IF refs = <<>> THEN st
    ELSE CHOOSE r \in {CopyAll(next, Tail(refs)) : next \in {SetCopy(st, Head(refs))}} :
             TRUE

\* Lines 173-179 and 196-198: the object the map holds is changed in place.
UpdateExisting(kind, st, ref) ==
    LET at == st.map[findIndex(st.map,
                               {r \in Range(st.map) : st.heap[r].id = st.heap[ref].id})]
        changed == IF kind = "entity"
                   THEN MergeEntity(st.heap[at], st.heap[ref])
                   ELSE MergeRelationship(st.heap[at], st.heap[ref])
    IN [st EXCEPT !.heap[at] = changed]

RECURSIVE MergeAll(_, _, _)
\* Lines 171-183 and 194-202: current.<list>.forEach(...).
MergeAll(kind, st, refs) ==
    IF refs = <<>> THEN st
    ELSE LET ref == Head(refs)
             has == \E r \in Range(st.map) : st.heap[r].id = st.heap[ref].id
             next == IF has THEN UpdateExisting(kind, st, ref) ELSE SetCopy(st, ref)
         IN CHOOSE r \in {MergeAll(kind, n, Tail(refs)) : n \in {next}} : TRUE

\* Lines 161-208 on objects: the heap after the call and the result returned.
mergeResultsOnHeap(h, previous, current) ==
    LET e0 == CopyAll([heap |-> h, map |-> <<>>], previous.entities)
        e1 == MergeAll("entity", e0, current.entities)
        r0 == CopyAll([heap |-> e1.heap, map |-> <<>>], previous.relationships)
        r1 == MergeAll("relationship", r0, current.relationships)
    IN [heap |-> r1.heap,
        result |-> [entities |-> e1.map, relationships |-> r1.map]]

\* The value of a result: its objects in place of the references.
Deref(h, result) ==
    [entities |-> [i \in DOMAIN result.entities |-> h[result.entities[i]]],
     relationships |->
         [i \in DOMAIN result.relationships |-> h[result.relationships[i]]]]

(***************************************************************************)
(* Calls of mergeResults followed object by object: a first call on a      *)
(* cumulative context and a task's result, then further calls that merge   *)
(* the same result into the context the call before returned (lines        *)
(* 120-122, task after task).                                              *)
(***************************************************************************)
MaxMerges == 2

AliasLists == {<<"x">>, <<"x", "y">>, <<"y", "x">>}

Summaries == {<<>>, <<"s">>, <<"t">>, <<"t", "t">>}

\* Entities the backend may report.
EntityInputs ==
    {Entity("a", aliases, summary) : aliases \in AliasLists, summary \in Summaries}
        \cup {Entity("b", <<>>, <<>>)}

\* Relationships the backend may report: weak, at the cap, and above the range
\* the prompt asks for (deepseek-api.ts line 334 takes the strength as sent).
RelationshipInputs ==
    {Relationship("a", "b", 2), Relationship("a", "b", 10), Relationship("a", "b", 12),
     Relationship("b", "a", 12)}

\* Relationships of a cumulative context: reported ones, and one reinforced to 8.5.
ContextRelationships ==
    RelationshipInputs \cup {[Relationship("a", "b", 8) EXCEPT !.strength = @ + 1]}

\* The lists of at most two elements of S.
ShortLists(S) == {<<>>} \cup {<<x>> : x \in S} \cup {<<x, y>> : x \in S, y \in S}

\* formatResult keeps a relationship only between two entities of the result
\* (deepseek-api.ts lines 321-327), and merging keeps it so.
Connected(result) ==
    \A rel \in Range(result.relationships) :
        {rel.source, rel.target} \subseteq {e.id : e \in Range(result.entities)}

\* Cumulative contexts: the values of two maps, so no id twice.
ContextInputs ==
    {context \in
        {[entities |-> e, relationships |-> r] :
            e \in {list \in ShortLists(EntityInputs) :
                      Len(list) = 2 => list[1].id = "a" /\ list[2].id = "b"},
            r \in {<<>>} \cup {<<x>> : x \in ContextRelationships}} :
        Connected(context)}

\* Results of the backend: an id may come twice.
ResultInputs ==
    {result \in
        {[entities |-> e, relationships |-> r] :
            e \in ShortLists(EntityInputs), r \in ShortLists(RelationshipInputs)} :
        Connected(result)}

\* The references first, first + 1, ... for the elements of list.
Refs(first, list) == [i \in DOMAIN list |-> first + i - 1]

InitMerge ==
    /\ tasks = <<>>
    /\ queue = <<>>
    /\ taskHistory = <<>>
    /\ currentTask = 0
    /\ isProcessing = FALSE
    /\ previousResults = EmptyResult
    /\ onTaskCompletedCallbacks = <<>>
    /\ onQueueChangedCallbacks = <<>>
    /\ stack = <<>>
    /\ handlers = {}
    /\ copy = "none"
    /\ startLog = <<>>
    /\ completionLog = <<>>
    /\ dueNotif = <<>>
    /\ strayNotif = FALSE
    /\ resets = 0
    /\ responses = <<>>
    /\ \E previous \in ContextInputs, current \in ResultInputs :
          LET pe == Len(previous.entities)
              pr == Len(previous.relationships)
              ce == Len(current.entities)
          IN /\ heap = previous.entities \o previous.relationships
                           \o current.entities \o current.relationships
             /\ mergeCall =
                    [pc |-> "called", merges |-> 1,
                     previous |-> [entities |-> Refs(1, previous.entities),
                                   relationships |->
                                       Refs(pe + 1, previous.relationships)],
                     current |-> [entities |-> Refs(pe + pr + 1, current.entities),
                                  relationships |->
                                      Refs(pe + pr + ce + 1, current.relationships)],
                     result |-> NoResult]

\* Line 121: mergeResults(previous, current) runs and returns.
mergeResultsReturns ==
    /\ mergeCall.pc = "called"
    /\ LET done == mergeResultsOnHeap(heap, mergeCall.previous, mergeCall.current)
       IN /\ heap' = done.heap
          /\ mergeCall' = [mergeCall EXCEPT !.pc = "returned", !.result = done.result]
    /\ UNCHANGED <<responses, queueVars>>

\* Line 121 again, for a later task with an equal result: the context is what the
\* call before returned.
mergeResultsAgain ==
    /\ mergeCall.pc = "returned"
    /\ mergeCall.merges < MaxMerges
    /\ mergeCall' = [mergeCall EXCEPT !.pc = "called", !.merges = @ + 1,
                                      !.previous = mergeCall.result,
                                      !.result = NoResult]
    /\ UNCHANGED <<heap, responses, queueVars>>

NextMerge == mergeResultsReturns \/ mergeResultsAgain

SpecMerge == InitMerge /\ [][NextMerge]_vars

(***************************************************************************)
(* The backend client (deepseek-api.ts).  A backend response names its     *)
(* entities; formatResult derives the ids.  Names, types and ids are       *)
(* sequences of characters, so that lowercasing, the replacement of        *)
(* whitespace and the search for a type keyword are computed as the code   *)
(* computes them.                                                          *)
(***************************************************************************)
UpperCaseLetters ==
    <<"A", "B", "C", "D", "E", "F", "G", "H", "I", "J", "K", "L", "M">>
        \o <<"N", "O", "P", "Q", "R", "S", "T", "U", "V", "W", "X", "Y", "Z">>

LowerCaseLetters ==
    <<"a", "b", "c", "d", "e", "f", "g", "h", "i", "j", "k", "l", "m">>
        \o <<"n", "o", "p", "q", "r", "s", "t", "u", "v", "w", "x", "y", "z">>

WhiteSpace == {" ", "\t"}

\* String.prototype.toLowerCase, character by character.
toLowerCase(str) ==
    [i \in DOMAIN str |->
        IF \E k \in DOMAIN UpperCaseLetters : UpperCaseLetters[k] = str[i]
        THEN LowerCaseLetters[CHOOSE k \in DOMAIN UpperCaseLetters :
                                  UpperCaseLetters[k] = str[i]]
        ELSE str[i]]

RECURSIVE HyphenateFrom(_, _)
\* str.replace(/\s+/g, '-') from position i on: one hyphen for each run of
\* whitespace.
HyphenateFrom(str, i) ==
    IF i > Len(str) THEN <<>>
    ELSE IF str[i] \in WhiteSpace
         THEN IF i > 1 /\ str[i - 1] \in WhiteSpace
              THEN HyphenateFrom(str, i + 1)
              ELSE <<"-">> \o HyphenateFrom(str, i + 1)
         ELSE <<str[i]>> \o HyphenateFrom(str, i + 1)

\* String.prototype.includes.
Includes(str, sub) ==
    \E i \in 1..(Len(str) - Len(sub) + 1) : SubSeq(str, i, i + Len(sub) - 1) = sub

\* Lines 347-354: the application's entity type.
mapEntityType(type) ==
    LET lower == toLowerCase(type)
    IN IF Includes(lower, <<"p", "e", "r", "s", "o", "n">>) THEN <<"p", "e", "r", "s", "o", "n">>
       ELSE IF Includes(lower, <<"o", "r", "g">>) THEN <<"o", "r", "g", "a", "n", "i", "z", "a", "t", "i", "o", "n">>
       ELSE IF Includes(lower, <<"l", "o", "c">>) THEN <<"l", "o", "c", "a", "t", "i", "o", "n">>
       ELSE IF Includes(lower, <<"d", "a", "t", "e">>) THEN <<"d", "a", "t", "e">>
       ELSE <<"o", "t", "h", "e", "r">>

\* Lines 359-366: the prefix of an entity id.
getEntityTypePrefix(type) ==
    LET lower == toLowerCase(type)
    IN IF Includes(lower, <<"p", "e", "r", "s", "o", "n">>) THEN <<"p", "e", "r", "s", "o", "n">>
       ELSE IF Includes(lower, <<"o", "r", "g">>) THEN <<"o", "r", "g">>
       ELSE IF Includes(lower, <<"l", "o", "c">>) THEN <<"l", "o", "c">>
       ELSE IF Includes(lower, <<"d", "a", "t", "e">>) THEN <<"d", "a", "t", "e">>
       ELSE <<"o", "t", "h", "e", "r">>

\* Lines 309-316: the application's entity for an entity of the response.
formatEntity(entity) ==
    [id |-> getEntityTypePrefix(entity.type) \o <<"-">>
                \o HyphenateFrom(toLowerCase(entity.name), 1),
     name |-> entity.name,
     type |-> mapEntityType(entity.type),
     aliases |-> entity.aliases,
     summary |-> entity.summary]

\* entities.find(e => e.name === name) with the case of the letters ignored.
findIgnoringCase(entities, name) ==
    findIndex(entities,
              {e \in Range(entities) : toLowerCase(e.name) = toLowerCase(name)})

\* Lines 321-322: entities.find(e => e.name === name), as an index (0: undefined).
find(entities, name) ==
    findIndex(entities, {e \in Range(entities) : e.name = name})

\* Lines 319-335: the application's relationships; an unresolved one is null and
\* filtered out.
formatRelationships(entities, relationships) ==
    LET resolved(rel) == find(entities, rel.source) # 0 /\ find(entities, rel.target) # 0
        format(rel) ==
            LET sourceEntity == entities[find(entities, rel.source)]
                targetEntity == entities[find(entities, rel.target)]
            IN [id |-> <<"r", "e", "l", "-">> \o sourceEntity.id \o <<"-">> \o targetEntity.id,
                source |-> sourceEntity.id,
                target |-> targetEntity.id,
                strength |-> rel.strength * Half]
        kept == SelectSeq(relationships, resolved)
    IN [i \in DOMAIN kept |-> format(kept[i])]

\* Lines 307-342.
formatResult(response) ==
    LET entities == [i \in DOMAIN response.entities |->
                        formatEntity(response.entities[i])]
    IN [entities |-> entities,
        relationships |-> formatRelationships(entities, response.relationships)]

(***************************************************************************)
(* Backend responses.                                                      *)
(***************************************************************************)
Alice == <<"A", "l", "i", "c", "e">>

Bob == <<"B", "o", "b">>

Carol == <<"C", "a", "r", "o", "l">>

Paris == <<"P", "a", "r", "i", "s">>

NewYork == <<"N", "e", "w", " ", " ", "Y", "o", "r", "k">>

BackendEntity(name, type, aliases, summary) ==
    [name |-> name, type |-> type, aliases |-> aliases, summary |-> summary]

BackendRelationship(source, target, strength) ==
    [source |-> source, target |-> target, strength |-> strength]

\* Three entities and one relationship between two of them.
ResponseThree ==
    [entities |-> <<BackendEntity(Alice, <<"p", "e", "r", "s", "o", "n">>, <<"x">>, <<"s">>),
                    BackendEntity(Bob, <<"p", "e", "r", "s", "o", "n">>, <<>>, <<>>),
                    BackendEntity(Paris, <<"l", "o", "c", "a", "t", "i", "o", "n">>, <<>>, <<"s">>)>>,
     relationships |-> <<BackendRelationship(Alice, Bob, 5)>>]

\* The same person twice, the second time in lower case, and the same
\* relationship twice.
ResponseTwice ==
    [entities |-> <<BackendEntity(Alice, <<"P", "e", "r", "s", "o", "n">>, <<"y">>, <<"s", "s">>),
                    BackendEntity(toLowerCase(Alice), <<"p", "e", "r", "s", "o", "n">>, <<"x">>, <<>>),
                    BackendEntity(Bob, <<"p", "e", "r", "s", "o", "n">>, <<>>, <<>>)>>,
     relationships |-> <<BackendRelationship(Alice, Bob, 4),
                         BackendRelationship(Alice, Bob, 12)>>]

\* Relationships whose source or target names no entity of the response, one of
\* them by the case of a letter only.
ResponseDangling ==
    [entities |-> <<BackendEntity(Bob, <<"p", "e", "r", "s", "o", "n">>, <<>>, <<>>),
                    BackendEntity(NewYork, <<"L", "O", "C", "A", "T", "I", "O", "N">>, <<>>, <<>>)>>,
     relationships |-> <<BackendRelationship(Bob, Carol, 3),
                         BackendRelationship(Bob, NewYork, 2),
                         BackendRelationship(toLowerCase(Bob), NewYork, 7),
                         BackendRelationship(Alice, Bob, 1)>>]

\* An alias list with a value twice, and a relationship at the upper end of the
\* range the prompt asks for.
ResponseRepeats ==
    [entities |-> <<BackendEntity(Alice, <<"p", "e", "r", "s", "o", "n">>, <<"x", "x">>, <<>>),
                    BackendEntity(Bob, <<"p", "e", "r", "s", "o", "n">>, <<>>, <<>>)>>,
     relationships |-> <<BackendRelationship(Alice, Bob, STRENGTH_CAP)>>]

BackendResponses == {ResponseThree, ResponseTwice, ResponseDangling, ResponseRepeats}

(***************************************************************************)
(* The service with the backend client: a handler's request is answered by *)
(* a backend response, which the client normalizes (formatResult) and the  *)
(* adapter stores on the task.  Callers add tasks and reset the context.   *)
(***************************************************************************)
\* deepseek-api.ts line 128 and queue-adapter.ts lines 36-39 and 157: the backend
\* answers; processNextTask resumes after its await.
BackendResponds(h, response) ==
    /\ stack = <<>>
    /\ h \in handlers
    /\ handlers' = handlers \ {h}
    /\ tasks' = [tasks EXCEPT ![h.task].result = formatResult(response)]
    /\ responses' = Append(responses, [task |-> h.task, response |-> response])
    /\ stack' = <<[Frame("processNextTask", "success") EXCEPT
                      !.historyIndex = h.historyIndex]>>
    /\ UNCHANGED <<queue, taskHistory, currentTask, isProcessing, previousResults,
                   onTaskCompletedCallbacks, onQueueChangedCallbacks, copy, startLog,
                   completionLog, dueNotif, strayNotif, resets>>
    /\ UNCHANGED <<heap, mergeCall>>

NextBackend ==
    \/ \E type \in TaskTypes : addTask(type)
    \/ resetPreviousResults
    \/ addTaskStart
    \/ processNextTaskStart
    \/ processNextTaskInvoke
    \/ processNextTaskSuccess
    \/ processNextTaskMerge
    \/ processNextTaskCatch
    \/ processNextTaskNext
    \/ notify
    \/ \E h \in handlers, response \in BackendResponses : BackendResponds(h, response)
    \/ \E h \in handlers, error \in BackendErrors : HandlerRejects(h, error)

SpecBackend == Init /\ [][NextBackend]_vars

(***************************************************************************)
(* Three results whose entity ids do not overlap, merged into the empty    *)
(* context in the order A, B, C and in the order B, A, C (lines 120-122    *)
(* for three tasks that complete one after the other, in either order).    *)
(***************************************************************************)
\* Entities with three ids, one id with two descriptions.
OrderEntities ==
    {Entity("a", <<"x">>, <<"s">>), Entity("a", <<"y">>, <<"t", "t">>),
     Entity("b", <<>>, <<>>), Entity("c", <<"y">>, <<"t">>)}

OrderResults ==
    {result \in
        {[entities |-> e, relationships |-> r] :
            e \in ShortLists(OrderEntities),
            r \in {<<>>, <<Relationship("a", "b", 2)>>}} :
        Connected(result)}

\* No entity id is in two of the three results.
Disjoint(A, B, C) ==
    /\ EntityIds(A) \cap EntityIds(B) = {}
    /\ EntityIds(A) \cap EntityIds(C) = {}
    /\ EntityIds(B) \cap EntityIds(C) = {}

InitOrder ==
    /\ tasks = <<>>
    /\ queue = <<>>
    /\ taskHistory = <<>>
    /\ currentTask = 0
    /\ isProcessing = FALSE
    /\ previousResults = EmptyResult
    /\ onTaskCompletedCallbacks = <<>>
    /\ onQueueChangedCallbacks = <<>>
    /\ stack = <<>>
    /\ handlers = {}
    /\ copy = "none"
    /\ startLog = <<>>
    /\ completionLog = <<>>
    /\ dueNotif = <<>>
    /\ strayNotif = FALSE
    /\ resets = 0
    /\ responses = <<>>
    /\ heap = <<>>
    /\ \E A \in OrderResults, B \in OrderResults, C \in OrderResults :
          /\ Disjoint(A, B, C)
          /\ mergeCall = [pc |-> "orders",
                          one |-> [context |-> EmptyResult, results |-> <<A, B, C>>],
                          other |-> [context |-> EmptyResult, results |-> <<B, A, C>>]]

\* Line 121 for the next result of an order.
MergeNext(order) ==
    [context |-> mergeResults(order.context, Head(order.results)),
     results |-> Tail(order.results)]

\* The next result is merged, in the one order and in the other.
mergeResultsInOrder ==
    /\ mergeCall.pc = "orders"
    /\ mergeCall.one.results # <<>>
    /\ mergeCall' = [mergeCall EXCEPT !.one = MergeNext(mergeCall.one),
                                      !.other = MergeNext(mergeCall.other)]
    /\ UNCHANGED <<heap, responses, queueVars>>

NextOrder == mergeResultsInOrder

SpecOrder == InitOrder /\ [][NextOrder]_vars

(***************************************************************************)
(* The handler of queue-adapter.ts by task type.  addTask takes the type   *)
(* it is given; the handler routes a task to the adapter of its type and   *)
(* throws for a type it has no adapter for.                                *)
(***************************************************************************)
\* The types callers give: two the handler knows, one it does not.
AnyTaskTypes == {"text", "document", "audio"}

\* Lines 143-155: the adapter the switch routes a task type to.
Processor(type) ==
    CASE type = "text" -> "TextAnalysisAdapter"
      [] type = "document" -> "DocumentAnalysisAdapter"
      [] type = "image" -> "ImageAnalysisAdapter"
      [] OTHER -> "default"

\* Lines 20-22, 60-62 and 104-106: the adapter throws for a task of another type.
AdapterThrows(adapter, type) ==
    CASE adapter = "TextAnalysisAdapter" -> type # "text"
      [] adapter = "DocumentAnalysisAdapter" -> type # "document"
      [] adapter = "ImageAnalysisAdapter" -> type # "image"

\* The handler throws before any request to the backend.
Unsupported(type) ==
    IF Processor(type) = "default" THEN TRUE ELSE AdapterThrows(Processor(type), type)

\* Line 154: the message of the error thrown.
UnsupportedTaskType(type) == "Unsupported task type: " \o type

NextTypes ==
    \/ \E type \in AnyTaskTypes : addTask(type)
    \/ addTaskStart
    \/ processNextTaskStart
    \/ processNextTaskInvoke
    \/ processNextTaskSuccess
    \/ processNextTaskMerge
    \/ processNextTaskCatch
    \/ processNextTaskNext
    \/ notify
    \/ \E h \in handlers, result \in BackendResults :
          ~Unsupported(tasks[h.task].type) /\ HandlerResolves(h, result)
    \/ \E h \in handlers, error \in BackendErrors :
          ~Unsupported(tasks[h.task].type) /\ HandlerRejects(h, error)
    \/ \E h \in handlers :
          /\ Unsupported(tasks[h.task].type)
          /\ HandlerRejects(h, UnsupportedTaskType(tasks[h.task].type))

SpecTypes == Init /\ [][NextTypes]_vars

(***************************************************************************)
(* Subscribers that throw.  notifyTaskCompleted and notifyQueueChanged     *)
(* call the subscribers in a forEach without a try block, so an exception  *)
(* thrown by a subscriber leaves the forEach and the notify method and     *)
(* reaches the code that called it:                                        *)
(*   addTask, line 49            the exception leaves addTask, lines 52-54 *)
(*                               are not run, and it reaches addTask's     *)
(*                               caller (a subscriber that does not catch  *)
(*                               it passes it on)                          *)
(*   resetPreviousResults, 256   the exception reaches the caller          *)
(*   processNextTask, line 99    outside the try block: the promise of the *)
(*                               async function is rejected; the caller,   *)
(*                               which does not await it, goes on          *)
(*   processNextTask, line 117   inside the try block: control passes to   *)
(*                               the catch block with the exception        *)
(*   processNextTask, line 138   inside the finally block: lines 141-144   *)
(*                               are not run and the promise is rejected   *)
(***************************************************************************)
SubscriberErrors == {"Error in subscriber"}

RECURSIVE Unwind(_, _)
\* The call stack after an exception has left the frame above `frames`.
Unwind(frames, error) ==
    IF frames = <<>> THEN <<>>
    ELSE LET top == Head(frames)
         IN IF top.op = "processNextTask"
            THEN IF top.pc = "merge"
                 THEN <<[top EXCEPT !.pc = "catch", !.error = error]>> \o Tail(frames)
                 ELSE Tail(frames)
            ELSE Unwind(Tail(frames), error)

\* The subscriber that is running throws.
callbackThrows(error) ==
    /\ stack # <<>>
    /\ Head(stack).op = "callback"
    /\ stack' = Unwind(Tail(stack), error)
    /\ UNCHANGED <<tasks, queue, taskHistory, currentTask, isProcessing,
                   previousResults, onTaskCompletedCallbacks, onQueueChangedCallbacks,
                   handlers, copy, startLog, completionLog, dueNotif, strayNotif,
                   resets>>
    /\ UNCHANGED engineVars

NextThrows ==
    \/ Next
    \/ \E error \in SubscriberErrors : callbackThrows(error)

SpecThrows == Init /\ [][NextThrows]_vars

(***************************************************************************)
(* Vocabulary of the properties                                            *)
(***************************************************************************)
Terminal == {"completed", "failed"}

Idle == stack = <<>>

WithStatus(status) == {t \in DOMAIN tasks : tasks[t].status = status}

Settled == WithStatus("completed") \cup WithStatus("failed")

\* `context` holds what merging `result` into it leaves there: every entity of
\* the result with its aliases and a summary at least as long, every relationship.
Contains(context, result) ==
    /\ \A i \in DOMAIN result.entities :
          \E j \in DOMAIN context.entities :
              /\ context.entities[j].id = result.entities[i].id
              /\ Range(result.entities[i].aliases) \subseteq Range(context.entities[j].aliases)
              /\ Len(context.entities[j].summary) >= Len(result.entities[i].summary)
    /\ \A i \in DOMAIN result.relationships :
          \E j \in DOMAIN context.relationships :
              context.relationships[j].id = result.relationships[i].id

RECURSIVE Fold(_)
\* The left fold of mergeResults, from the empty result, over the results of `log`.
Fold(log) ==
    IF log = <<>> THEN EmptyResult
    ELSE mergeResults(Fold(SubSeq(log, 1, Len(log) - 1)), tasks[log[Len(log)]].result)

(***************************************************************************)
(* C1. Single-flight: in every reachable state at most one task has status *)
(* 'processing' and at most one handler invocation is in flight, whatever  *)
(* the interleaving of addTask (also from inside a subscriber callback),   *)
(* handler completions and failures, and resetPreviousResults; an addTask  *)
(* made while a task is processing only enqueues.                          *)
(***************************************************************************)
SingleFlight ==
    /\ Cardinality(WithStatus("processing")) <= 1
    /\ Cardinality(handlers) <= 1
    /\ \A h \in handlers : tasks[h.task].status = "processing"

\* An addTask call made by an outside caller, with no subscriber to run during
\* it, is past its enqueue while the handler of an earlier task is in flight.
SingleFlightWitness ==
    /\ Running("addTask", "afterNotify")
    /\ Len(stack) = 1
    /\ onQueueChangedCallbacks = <<>>
    /\ handlers # {}
    /\ Cardinality(WithStatus("pending")) >= 1

(***************************************************************************)
(* C2. FIFO: tasks leave 'pending' in the order of their addTask calls,    *)
(* and for any two tasks A added before B, A has reached a terminal status *)
(* when B is 'processing'.                                                 *)
(***************************************************************************)
FifoOrder ==
    \A i, j \in DOMAIN queue :
        i < j =>
            /\ tasks[queue[j]].status # "pending" => tasks[queue[i]].status # "pending"
            /\ tasks[queue[j]].status = "processing" =>
                   tasks[queue[i]].status \in Terminal

(***************************************************************************)
(* C3. Context freshness at dequeue: the prior context a handler passes to *)
(* the backend is the cumulative context of the moment its task became     *)
(* 'processing', and it holds the merged result of every task that         *)
(* completed before it since the last reset, also of tasks that completed  *)
(* after it was enqueued.                                                  *)
(***************************************************************************)
ContextAtDequeue ==
    \A h \in handlers :
        /\ h.context = h.dequeuedWith
        /\ \A i \in DOMAIN completionLog :
               tasks[completionLog[i]].status = "completed" =>
                   Contains(h.context, tasks[completionLog[i]].result)

(***************************************************************************)
(* C3, amended. The prior context a handler passes to the backend is the   *)
(* cumulative context of the moment its task became 'processing', or the   *)
(* empty context when a queue-changed subscriber called                    *)
(* resetPreviousResults during the notification of that transition (line   *)
(* 99 runs before the handler reads the context); either way it holds the  *)
(* merged result of every task that completed before it since the last     *)
(* reset, also of tasks that completed after it was enqueued.              *)
(***************************************************************************)
ContextFreshness ==
    \A h \in handlers :
        /\ h.context = h.dequeuedWith \/ h.context = EmptyResult
        /\ \A i \in DOMAIN completionLog :
               tasks[completionLog[i]].status = "completed" =>
                   Contains(h.context, tasks[completionLog[i]].result)

\* The handler of a task that was enqueued before an earlier task completed is in
\* flight with a prior context holding that task's result.
ContextFreshnessWitness ==
    \E h \in handlers :
        /\ h.task > 1
        /\ \E i \in DOMAIN startLog :
               startLog[i].task = h.task /\ startLog[i].caller = "processNextTask"
        /\ completionLog # <<>>
        /\ tasks[completionLog[1]].status = "completed"
        /\ h.context # EmptyResult
        /\ Contains(h.context, tasks[completionLog[1]].result)

(***************************************************************************)
(* C4. Exactly-once merge: whenever no task is in its completion step, the *)
(* cumulative context is the left fold of merge, from the empty result,    *)
(* over the results of the tasks that completed since the last             *)
(* resetPreviousResults, in completion order; a failed task contributes    *)
(* nothing.                                                                *)
(***************************************************************************)
ExactlyOnceMerge == Idle => previousResults = Fold(completionLog)

(***************************************************************************)
(* C5. Failure isolation: when a handler fails, exactly its task becomes   *)
(* 'failed' with the error's message, no other task changes, the           *)
(* cumulative context stays as it was, and the single-flight flag is       *)
(* cleared so that the next pending task is processed.                     *)
(***************************************************************************)
FailureIsolation ==
    [][Running("processNextTask", "catch") /\ currentTask # 0 =>
          /\ tasks'[currentTask].status = "failed"
          /\ tasks'[currentTask].error = Head(stack).error
          /\ \A t \in DOMAIN tasks : t # currentTask => tasks'[t] = tasks[t]
          /\ previousResults' = previousResults
          /\ ~isProcessing']_vars

(***************************************************************************)
(* C6. Task lifecycle: a task's status only changes from pending to        *)
(* processing, from processing to completed and from processing to failed; *)
(* a completed or failed task keeps its status, and no task is handed to a *)
(* handler twice.                                                          *)
(***************************************************************************)
Transitions ==
    {<<"pending", "processing">>, <<"processing", "completed">>,
     <<"processing", "failed">>}

TaskLifecycle ==
    [][/\ \A t \in DOMAIN tasks :
             tasks'[t].status # tasks[t].status =>
                 <<tasks[t].status, tasks'[t].status>> \in Transitions
       /\ \A i, j \in DOMAIN startLog' :
             startLog'[i].task = startLog'[j].task => i = j]_vars

CompletionNotified == Idle => dueNotif = <<>> /\ ~strayNotif

(***************************************************************************)
(* C9. Copy isolation: a caller changing the lists of the value that       *)
(* getPreviousResults() returned leaves the cumulative context as it was.  *)
(***************************************************************************)
CopyIsolation ==
    [][copy # "mutated" /\ copy' = "mutated" => previousResults' = previousResults]_vars

(***************************************************************************)
(* C10. A getPreviousResults() call made by an onTaskCompleted subscriber  *)
(* while it is called for task T returns the cumulative context with T's   *)
(* result merged in.                                                       *)
(***************************************************************************)
SubscriberSeesMerged ==
    (/\ stack # <<>>
     /\ Head(stack).op = "callback"
     /\ Head(stack).pc = "notifyTaskCompleted"
     /\ Head(stack).got # NoResult)
    => Contains(Head(stack).got, tasks[Head(stack).task].result)

(***************************************************************************)
(* C11. Order of the success step: the new cumulative context is the merge *)
(* of the context as it was before the completion subscribers were         *)
(* notified with the task's result, whatever the subscribers did during    *)
(* the notification.                                                       *)
(***************************************************************************)
MergeOfContextBeforeNotification ==
    [][(/\ Running("processNextTask", "merge")
        /\ currentTask # 0
        /\ tasks[currentTask].result # NoResult
        /\ stack' # stack)
       => previousResults' =
              mergeResults(Head(stack).got, tasks[currentTask].result)]_vars

(***************************************************************************)
(* C12. getTasks(): in every reachable state the returned list holds every *)
(* task ever added exactly once, the pending and processing tasks first    *)
(* and the completed and failed tasks after them, newest first.            *)
(***************************************************************************)
TaskListing ==
    LET list == getTasks
        Active(i) == tasks[list[i]].status \in {"pending", "processing"}
    IN /\ Len(list) = Len(tasks)
       /\ Range(list) = DOMAIN tasks
       /\ \A i, j \in DOMAIN list :
              i < j =>
                  /\ Active(j) => Active(i)
                  /\ ~Active(i) /\ ~Active(j) => list[i] > list[j]

\* A queue-changed subscriber (the queue panel calls getTasks() there) runs while
\* one task is active and two have settled.
TaskListingWitness ==
    /\ stack # <<>>
    /\ Head(stack).op = "callback"
    /\ Head(stack).pc = "notifyQueueChanged"
    /\ Cardinality(Settled) >= 2
    /\ Len(ActiveQueue) >= 1
    /\ Len(getTasks) = MaxTasks

(***************************************************************************)
(* C13. resetPreviousResults(): the call empties the cumulative context,   *)
(* calls every queue-changed subscriber once and changes nothing else.     *)
(* First conjunct: the call itself, up to its notification.  Second        *)
(* conjunct: the moment its notification has called the last subscriber    *)
(* and the call returns; getPreviousResults() is empty, the subscribers    *)
(* called are the subscribed ones, each once, and the tasks, the queue,    *)
(* the history and the single-flight flag are as before the call, unless a *)
(* subscriber added a task during the notification.                        *)
(***************************************************************************)
ResetReturning ==
    /\ stack # <<>>
    /\ Head(stack).op = "notifyQueueChanged"
    /\ Head(stack).caller = "resetPreviousResults"
    /\ Head(stack).rest = <<>>

NotifiesQueueChanged(frames) ==
    /\ frames # <<>>
    /\ Head(frames).op = "notifyQueueChanged"
    /\ Head(frames).rest = onQueueChangedCallbacks
    /\ Head(frames).called = <<>>

RemovesOne(before, after) ==
    \E i \in DOMAIN before :
        after = SubSeq(before, 1, i - 1) \o SubSeq(before, i + 1, Len(before))

UnsubscribeRemovesOne ==
    [][/\ Len(onTaskCompletedCallbacks') < Len(onTaskCompletedCallbacks)
          => RemovesOne(onTaskCompletedCallbacks, onTaskCompletedCallbacks')
       /\ Len(onQueueChangedCallbacks') < Len(onQueueChangedCallbacks)
          => RemovesOne(onQueueChangedCallbacks, onQueueChangedCallbacks')]_vars

\* A call of mergeResults runs from its entry to its return in this step.
MergeStep == mergeCall.pc = "called" /\ mergeCall'.pc = "returned"

\* The ids of the objects a list of references names.
Ids(h, refs) == {h[r].id : r \in Range(refs)}

\* The object with this id a list of references names.
ById(h, refs, id) == h[CHOOSE r \in Range(refs) : h[r].id = id]

(***************************************************************************)
(* C16  Merge purity: a call of mergeResults changes no object that        *)
(* existed before it (so neither the entities with their aliases and       *)
(* summaries nor the relationships with their strengths of previous and of *)
(* incoming, nor any context or result obtained earlier), leaves the two   *)
(* argument lists as they were, and returns the value that the two         *)
(* argument values determine.                                              *)
(***************************************************************************)
MergePurity ==
    [][MergeStep =>
          /\ \A ref \in DOMAIN heap : heap'[ref] = heap[ref]
          /\ mergeCall'.previous = mergeCall.previous
          /\ mergeCall'.current = mergeCall.current
          /\ Deref(heap', mergeCall'.previous) = Deref(heap, mergeCall.previous)
          /\ Deref(heap', mergeCall'.current) = Deref(heap, mergeCall.current)
          /\ Deref(heap', mergeCall'.result)
                 = mergeResults(Deref(heap, mergeCall.previous),
                                Deref(heap, mergeCall.current))]_vars

\* A second merge has returned: it was given the context the first one returned
\* and two incoming entities, merged into an entity of that context and
\* reinforced one of its relationships.
MergePurityWitness ==
    /\ mergeCall.pc = "returned"
    /\ mergeCall.merges = 2
    /\ \E id \in Ids(heap, mergeCall.previous.entities) :
          /\ id \in Ids(heap, mergeCall.current.entities)
          /\ ById(heap, mergeCall.previous.entities, id).aliases = <<"x", "y">>
    /\ \E id \in Ids(heap, mergeCall.previous.relationships) :
          /\ id \in Ids(heap, mergeCall.current.relationships)
          /\ ById(heap, mergeCall.result.relationships, id)
                 # ById(heap, mergeCall.previous.relationships, id)
    /\ Len(mergeCall.current.entities) = 2

RECURSIVE Strengths(_, _, _)
\* The strengths of the relationships with this id in a list, in its order.
Strengths(h, refs, id) ==
    IF refs = <<>> THEN <<>>
    ELSE IF h[Head(refs)].id = id
         THEN <<h[Head(refs)].strength>> \o Strengths(h, Tail(refs), id)
         ELSE Strengths(h, Tail(refs), id)

RECURSIVE Reinforced(_, _)
\* min(10, strength + 0.5 * incoming), one incoming strength after the other.
Reinforced(strength, incoming) ==
    IF incoming = <<>> THEN strength
    ELSE LET sum == strength + Head(incoming) \div 2
         IN Reinforced(IF sum > 10 * Half THEN 10 * Half ELSE sum, Tail(incoming))

(***************************************************************************)
(* C17  Relationship merge rule: an incoming relationship whose id is      *)
(* present is merged to min(10, existing strength + 0.5 * incoming         *)
(* strength); one whose id is not present is inserted with exactly its own *)
(* strength, uncapped, even above 10 (and is then present for the incoming *)
(* relationships after it).                                                *)
(***************************************************************************)
RelationshipMergeRule ==
    [][MergeStep =>
          \A id \in Ids(heap, mergeCall.current.relationships) :
              LET incoming == Strengths(heap, mergeCall.current.relationships, id)
                  merged == ById(heap', mergeCall'.result.relationships, id).strength
              IN IF id \in Ids(heap, mergeCall.previous.relationships)
                 THEN merged = Reinforced(
                          ById(heap, mergeCall.previous.relationships, id).strength,
                          incoming)
                 ELSE merged = Reinforced(Head(incoming), Tail(incoming))]_vars

\* A merge has returned that reinforced a relationship of the context below the
\* cap and inserted another one stronger than 10 as it came.
RelationshipMergeRuleWitness ==
    /\ mergeCall.pc = "returned"
    /\ \E id \in Ids(heap, mergeCall.current.relationships) :
          /\ id \in Ids(heap, mergeCall.previous.relationships)
          /\ ById(heap, mergeCall.result.relationships, id).strength
                 > ById(heap, mergeCall.previous.relationships, id).strength
          /\ ById(heap, mergeCall.result.relationships, id).strength
                 < STRENGTH_CAP * Half
    /\ \E id \in Ids(heap, mergeCall.current.relationships) :
          /\ id \notin Ids(heap, mergeCall.previous.relationships)
          /\ ById(heap, mergeCall.result.relationships, id).strength
                 > STRENGTH_CAP * Half

\* The context of this call has every relationship id of the incoming result.
ContainsRelationships ==
    Ids(heap, mergeCall.current.relationships)
        \subseteq Ids(heap, mergeCall.previous.relationships)

(***************************************************************************)
(* C18 as stated  Re-merging increases strength: when the context already  *)
(* contains the relationships of R, merging R again makes the strength of  *)
(* every relationship of R strictly greater than it was before that merge. *)
(***************************************************************************)
ReMergeIncreases ==
    [][MergeStep /\ ContainsRelationships =>
          \A id \in Ids(heap, mergeCall.current.relationships) :
              ById(heap', mergeCall'.result.relationships, id).strength
                  > ById(heap, mergeCall.previous.relationships, id).strength]_vars

(***************************************************************************)
(* C18  Re-merging increases strength up to the cap: when the context      *)
(* already contains the relationships of R, merging R again makes the      *)
(* strength of a relationship of R strictly greater than before exactly    *)
(* when it was below 10 before; a strength that was 10 stays 10, and one   *)
(* that was inserted above 10 comes down to 10.                            *)
(***************************************************************************)
ReMergeIncreasesBelowCap ==
    [][MergeStep /\ ContainsRelationships =>
          \A id \in Ids(heap, mergeCall.current.relationships) :
              LET before == ById(heap, mergeCall.previous.relationships, id).strength
                  after == ById(heap', mergeCall'.result.relationships, id).strength
              IN /\ before < STRENGTH_CAP * Half <=> after > before
                 /\ before >= STRENGTH_CAP * Half => after = STRENGTH_CAP * Half]_vars

\* The same result has been merged a second time into the context that contained
\* its relationships: one of them, below the cap, became stronger, another one,
\* inserted above 10 by the first merge, is now 10.
ReMergeIncreasesBelowCapWitness ==
    /\ mergeCall.pc = "returned"
    /\ mergeCall.merges = 2
    /\ Ids(heap, mergeCall.current.relationships)
           \subseteq Ids(heap, mergeCall.previous.relationships)
    /\ \E id \in Ids(heap, mergeCall.current.relationships) :
          /\ ById(heap, mergeCall.previous.relationships, id).strength
                 < ById(heap, mergeCall.result.relationships, id).strength
    /\ \E id \in Ids(heap, mergeCall.current.relationships) :
          /\ ById(heap, mergeCall.previous.relationships, id).strength
                 > STRENGTH_CAP * Half
          /\ ById(heap, mergeCall.result.relationships, id).strength
                 = STRENGTH_CAP * Half

(***************************************************************************)
(* C19  Alias union: when an incoming entity's id already exists, the      *)
(* merged entity's aliases are exactly the set union of the existing and   *)
(* the incoming aliases, each value once, whatever the order of the        *)
(* inputs.                                                                 *)
(***************************************************************************)
AliasUnion ==
    [][MergeStep =>
          \A id \in Ids(heap, mergeCall.current.entities)
                        \cap Ids(heap, mergeCall.previous.entities) :
              LET existing == ById(heap, mergeCall.previous.entities, id).aliases
                  incoming == {heap[r].aliases :
                                  r \in {c \in Range(mergeCall.current.entities) :
                                            heap[c].id = id}}
                  merged == ById(heap', mergeCall'.result.entities, id).aliases
              IN /\ Range(merged) = Range(existing) \cup UNION {Range(a) : a \in incoming}
                 /\ \A i, j \in DOMAIN merged : merged[i] = merged[j] => i = j]_vars

\* A merge has returned that found an entity with the alias x in the context and
\* the same entity with the aliases y, x in the result: the merged aliases are
\* x, y.
AliasUnionWitness ==
    /\ mergeCall.pc = "returned"
    /\ \E id \in Ids(heap, mergeCall.previous.entities) :
          /\ ById(heap, mergeCall.previous.entities, id).aliases = <<"x">>
          /\ \E c \in Range(mergeCall.current.entities) :
                 heap[c].id = id /\ heap[c].aliases = <<"y", "x">>
          /\ ById(heap, mergeCall.result.entities, id).aliases = <<"x", "y">>

RECURSIVE SummariesOf(_, _, _)
\* The summaries of the entities with this id in a list, in its order.
SummariesOf(h, refs, id) ==
    IF refs = <<>> THEN <<>>
    ELSE IF h[Head(refs)].id = id
         THEN <<h[Head(refs)].summary>> \o SummariesOf(h, Tail(refs), id)
         ELSE SummariesOf(h, Tail(refs), id)

RECURSIVE Summarised(_, _)
\* The incoming summary when it is non-empty and strictly longer, the existing
\* one otherwise, one incoming summary after the other.
Summarised(summary, incoming) ==
    IF incoming = <<>> THEN summary
    ELSE Summarised(IF Len(Head(incoming)) > 0 /\ Len(Head(incoming)) > Len(summary)
                    THEN Head(incoming)
                    ELSE summary,
                    Tail(incoming))

(***************************************************************************)
(* C20  Summary rule: when an incoming entity's id already exists, the     *)
(* merged summary is the incoming summary if and only if the incoming      *)
(* summary is non-empty and strictly longer than the existing one (absent  *)
(* or empty counting as length 0); otherwise the existing summary is kept, *)
(* so a summary's length never decreases across merges.                    *)
(***************************************************************************)
SummaryRule ==
    [][MergeStep =>
          \A id \in Ids(heap, mergeCall.current.entities)
                        \cap Ids(heap, mergeCall.previous.entities) :
              LET existing == ById(heap, mergeCall.previous.entities, id).summary
                  merged == ById(heap', mergeCall'.result.entities, id).summary
              IN /\ merged = Summarised(existing,
                                        SummariesOf(heap, mergeCall.current.entities, id))
                 /\ Len(merged) >= Len(existing)]_vars

\* A merge has returned that kept the summary s of the context against an
\* incoming summary t of the same length, and then replaced it by the longer
\* summary of a second incoming entity of that id.
SummaryRuleWitness ==
    /\ mergeCall.pc = "returned"
    /\ \E id \in Ids(heap, mergeCall.previous.entities) :
          /\ ById(heap, mergeCall.previous.entities, id).summary = <<"s">>
          /\ SummariesOf(heap, mergeCall.current.entities, id) = <<<<"t">>, <<"t", "t">>>>
          /\ ById(heap, mergeCall.result.entities, id).summary = <<"t", "t">>

(***************************************************************************)
(* C21  No loss of prior knowledge: between two resets, every entity id    *)
(* and every relationship id of the cumulative context stays in it through *)
(* every step of the service, task completions and failures included; a    *)
(* merge never removes an entity or a relationship.                        *)
(***************************************************************************)
NoLossOfKnowledge ==
    [][resets' = resets =>
          /\ EntityIds(previousResults) \subseteq EntityIds(previousResults')
          /\ RelationshipIds(previousResults)
                 \subseteq RelationshipIds(previousResults')]_vars

\* Without a reset, a first task completed with an entity b and a relationship, a
\* second one failed, a third one completed with a result that has neither: the
\* context still has both.
NoLossOfKnowledgeWitness ==
    /\ resets = 0
    /\ Len(tasks) = 3
    /\ stack = <<>>
    /\ handlers = {}
    /\ tasks[1].status = "completed" /\ tasks[1].result = ResultB
    /\ tasks[2].status = "failed"
    /\ tasks[3].status = "completed" /\ tasks[3].result = ResultA
    /\ completionLog = <<1, 3>>
    /\ "b" \in EntityIds(previousResults)
    /\ RelationshipIds(previousResults) # {}

\* No two elements of the list have the same id.
UniqueIds(list) == \A i, j \in DOMAIN list : list[i].id = list[j].id => i = j

\* The response the handler of task t was given, if it was given one.
Responded(t, response) ==
    \E i \in DOMAIN responses :
        responses[i].task = t /\ responses[i].response = response

(***************************************************************************)
(* C22  No duplicates in the cumulative context: after any sequence of     *)
(* task completions, failures and resets, no two entities of the           *)
(* cumulative context have the same id and no two relationships have the   *)
(* same id, even when a single incoming result has the same id several     *)
(* times.                                                                  *)
(***************************************************************************)
NoDuplicateIds ==
    /\ UniqueIds(previousResults.entities)
    /\ UniqueIds(previousResults.relationships)

\* After a reset and a failed task, a task has completed whose result has an
\* entity id twice and a relationship id twice, and the result has been merged.
NoDuplicateIdsWitness ==
    /\ stack = <<>>
    /\ handlers = {}
    /\ resets = 1
    /\ \E t \in DOMAIN tasks : tasks[t].status = "failed"
    /\ \E t \in Range(completionLog) :
          /\ Responded(t, ResponseTwice)
          /\ ~UniqueIds(tasks[t].result.entities)
          /\ ~UniqueIds(tasks[t].result.relationships)
          /\ EntityIds(tasks[t].result) \subseteq EntityIds(previousResults)
          /\ RelationshipIds(tasks[t].result) \subseteq RelationshipIds(previousResults)

(***************************************************************************)
(* C23  Id uniqueness of a normalized result: for every backend response,  *)
(* the result the backend client produced and the adapter stored as the    *)
(* task's result has no two entities with the same id.                     *)
(***************************************************************************)
NormalizedIdsUnique ==
    \A t \in DOMAIN tasks :
        tasks[t].result # NoResult => UniqueIds(tasks[t].result.entities)

\* The names of the entities of a response.
Names(response) == {e.name : e \in Range(response.entities)}

\* The relationships of a response whose source and target both name an entity of
\* the response, in the order of the response.
Resolvable(response) ==
    SelectSeq(response.relationships,
              LAMBDA rel : rel.source \in Names(response) /\ rel.target \in Names(response))

(***************************************************************************)
(* C24  Dangling relationships are dropped, not errors: for every backend  *)
(* response, a relationship is kept in the normalized result if and only   *)
(* if both its source name and its target name equal the name of an entity *)
(* of the same response; one with an unresolved endpoint is left out       *)
(* without failing the task; every kept relationship's source and target   *)
(* are ids of entities of the same normalized result.                      *)
(***************************************************************************)
DanglingDropped ==
    \A i \in DOMAIN responses :
        LET response == responses[i].response
            task == tasks[responses[i].task]
            kept == Resolvable(response)
        IN /\ task.result # NoResult
           /\ task.status # "failed"
           /\ task.error = NoError
           /\ Len(task.result.relationships) = Len(kept)
           /\ \A k \in DOMAIN kept :
                  LET rel == task.result.relationships[k]
                  IN /\ rel.strength = kept[k].strength * Half
                     /\ \E e \in Range(task.result.entities) :
                            e.name = kept[k].source /\ e.id = rel.source
                     /\ \E e \in Range(task.result.entities) :
                            e.name = kept[k].target /\ e.id = rel.target

\* A task has completed on a response with four relationships of which one only
\* names entities of the response at both ends; its result has that one.
DanglingDroppedWitness ==
    \E t \in DOMAIN tasks :
        /\ Responded(t, ResponseDangling)
        /\ tasks[t].status = "completed"
        /\ Len(ResponseDangling.relationships) = 4
        /\ Len(tasks[t].result.relationships) = 1
        /\ tasks[t].result.relationships[1].strength = 2 * Half

(***************************************************************************)
(* C25  Id derivation, end to end: an entity's id is its entity type, '-', *)
(* and its name lowercased with whitespace replaced by hyphens; a          *)
(* relationship's id is 'rel-<sourceId>-<targetId>'.  So after one task    *)
(* whose backend response has the entities Alice (person), Bob (person),   *)
(* Paris (location) and the relationship Alice to Bob of strength 5, the   *)
(* cumulative context holds exactly the entity ids person-alice,           *)
(* person-bob, location-paris and one relationship                         *)
(* rel-person-alice-person-bob of strength 5.                              *)
(***************************************************************************)
IdDerivation ==
    /\ \A t \in DOMAIN tasks :
          tasks[t].result # NoResult =>
              /\ \A e \in Range(tasks[t].result.entities) :
                     e.id = e.type \o <<"-">> \o HyphenateFrom(toLowerCase(e.name), 1)
              /\ \A r \in Range(tasks[t].result.relationships) :
                     r.id = <<"r", "e", "l", "-">> \o r.source \o <<"-">> \o r.target
    /\ (/\ Len(tasks) = 1
        /\ resets = 0
        /\ stack = <<>>
        /\ tasks[1].status = "completed"
        /\ Responded(1, ResponseThree))
          => /\ EntityIds(previousResults)
                    = {<<"p", "e", "r", "s", "o", "n", "-", "a", "l", "i", "c", "e">>,
                       <<"p", "e", "r", "s", "o", "n", "-", "b", "o", "b">>,
                       <<"l", "o", "c", "a", "t", "i", "o", "n", "-", "p", "a", "r", "i", "s">>}
             /\ Len(previousResults.entities) = 3
             /\ Len(previousResults.relationships) = 1
             /\ previousResults.relationships[1].id
                    = <<"r", "e", "l", "-", "p", "e", "r", "s", "o", "n", "-", "a", "l", "i", "c", "e", "-", "p", "e", "r", "s", "o", "n", "-", "b", "o", "b">>
             /\ previousResults.relationships[1].strength = 5 * Half

(***************************************************************************)
(* C26  Result and error fields: in every reachable state a task has a     *)
(* result only if its status is 'completed' and an error only if its       *)
(* status is 'failed'; a failed task never carries a result and a          *)
(* completed task never carries an error.                                  *)
(***************************************************************************)
ResultAndErrorFields ==
    \A t \in DOMAIN tasks :
        /\ tasks[t].result # NoResult => tasks[t].status = "completed"
        /\ tasks[t].error # NoError => tasks[t].status = "failed"

\* The ids of the objects a list of references names, in the order of the list.
IdList(h, refs) == [i \in DOMAIN refs |-> h[refs[i]].id]

RECURSIVE NewIds(_, _)
\* The ids of a list that are not among those seen, each at its first occurrence.
NewIds(ids, seen) ==
    IF ids = <<>> THEN <<>>
    ELSE IF Head(ids) \in seen
         THEN NewIds(Tail(ids), seen)
         ELSE <<Head(ids)>> \o NewIds(Tail(ids), seen \cup {Head(ids)})

(***************************************************************************)
(* C27  Merge output order: the entities of merge(previous, incoming) are  *)
(* the entities of previous in their original order (some updated),        *)
(* followed by the entities of incoming whose ids are new, in incoming     *)
(* order; the relationships follow the same rule.                          *)
(***************************************************************************)
MergeOutputOrder ==
    [][MergeStep =>
          /\ IdList(heap', mergeCall'.result.entities)
                 = IdList(heap, mergeCall.previous.entities)
                      \o NewIds(IdList(heap, mergeCall.current.entities),
                                Ids(heap, mergeCall.previous.entities))
          /\ IdList(heap', mergeCall'.result.relationships)
                 = IdList(heap, mergeCall.previous.relationships)
                      \o NewIds(IdList(heap, mergeCall.current.relationships),
                                Ids(heap, mergeCall.previous.relationships))]_vars

\* A merge has returned whose context had the entities a, b and one relationship
\* and whose incoming result had the entities b, a and first a relationship
\* that is new, then the one of the context: the result lists a, b and the
\* relationship of the context before the new one.
MergeOutputOrderWitness ==
    /\ mergeCall.pc = "returned"
    /\ IdList(heap, mergeCall.previous.entities) = <<"a", "b">>
    /\ IdList(heap, mergeCall.current.entities) = <<"b", "a">>
    /\ IdList(heap, mergeCall.result.entities) = <<"a", "b">>
    /\ Len(mergeCall.previous.relationships) = 1
    /\ Len(mergeCall.current.relationships) = 2
    /\ IdList(heap, mergeCall.current.relationships)
           = <<heap[mergeCall.current.relationships[1]].id>>
                \o IdList(heap, mergeCall.previous.relationships)
    /\ IdList(heap, mergeCall.result.relationships)
           = IdList(heap, mergeCall.previous.relationships)
                \o <<heap[mergeCall.current.relationships[1]].id>>
    /\ Len(mergeCall.result.relationships) = 2
    /\ heap[mergeCall.result.relationships[1]].id
           # heap[mergeCall.result.relationships[2]].id

(***************************************************************************)
(* C28  Order independence for disjoint results: for all results A, B, C   *)
(* whose entity ids do not overlap, merging A then B then C into the empty *)
(* context yields the same set of entities (ignoring order) as merging B   *)
(* then A then C.                                                          *)
(***************************************************************************)
OrderIndependence ==
    (mergeCall.pc = "orders" /\ mergeCall.one.results = <<>>)
        => Range(mergeCall.one.context.entities)
               = Range(mergeCall.other.context.entities)

\* Three results with entities, the first one with an id twice, have been merged
\* in both orders; the two contexts list the same entities in different orders.
OrderIndependenceWitness ==
    /\ mergeCall.pc = "orders"
    /\ mergeCall.one.results = <<>>
    /\ mergeCall.other.results = <<>>
    /\ EntityIds(mergeCall.one.context) = {"a", "b", "c"}
    /\ mergeCall.one.context.entities[1].id = "a"
    /\ mergeCall.one.context.entities[1].aliases = <<"x", "y">>
    /\ mergeCall.other.context.entities[1].id = "b"
    /\ mergeCall.one.context.entities # mergeCall.other.context.entities

(***************************************************************************)
(* C29  Unsupported task type: a task whose type is not text, document or  *)
(* image, or a task handed to an adapter of another type, makes the        *)
(* handler fail instead of returning a result; the task ends 'failed' with *)
(* an error message, the cumulative context is unchanged and later tasks   *)
(* are still processed: the tasks that are pending stay pending, to be     *)
(* taken next.                                                             *)
(***************************************************************************)
UnsupportedTypeFails ==
    [][/\ \A type \in AnyTaskTypes \cup {"image"} :
              /\ type \notin {"text", "document", "image"} => Unsupported(type)
              /\ \A adapter \in {"TextAnalysisAdapter", "DocumentAnalysisAdapter",
                                  "ImageAnalysisAdapter"} :
                     adapter # Processor(type) => AdapterThrows(adapter, type)
       /\ \A t \in DOMAIN tasks :
              tasks[t].type \notin {"text", "document", "image"} =>
                  tasks'[t].result = NoResult
       /\ (/\ Running("processNextTask", "catch")
           /\ currentTask # 0
           /\ tasks[currentTask].type \notin {"text", "document", "image"})
             => /\ tasks'[currentTask].status = "failed"
                /\ tasks'[currentTask].error
                       = UnsupportedTaskType(tasks[currentTask].type)
                /\ previousResults' = previousResults
                /\ ~isProcessing'
                /\ \A t \in DOMAIN tasks :
                       tasks[t].status = "pending" => tasks'[t].status = "pending"]_vars

(***************************************************************************)
(* C30  Queue and history stay in step: in every reachable state the       *)
(* queue and the history hold the same tasks, each task has the same       *)
(* status, result and error in both, the history lists the tasks in        *)
(* reverse order of their addTask calls, and no task is ever removed from  *)
(* the history.                                                            *)
(***************************************************************************)
QueueAndHistoryInStep ==
    [][/\ Len(queue') = Len(tasks') /\ Len(taskHistory') = Len(tasks')
       /\ \A i \in DOMAIN queue' :
              /\ queue'[i] = i
              /\ taskHistory'[Len(tasks') + 1 - i] = queue'[i]
              /\ tasks'[queue'[i]] = tasks'[taskHistory'[Len(tasks') + 1 - i]]
       /\ \A i \in DOMAIN taskHistory :
              taskHistory'[Len(taskHistory') - Len(taskHistory) + i] = taskHistory[i]]_vars

\* Three tasks were added; the first completed with a result, the second failed
\* with an error, the third is processing: the queue lists them oldest first, the
\* history newest first.
QueueAndHistoryInStepWitness ==
    /\ queue = <<1, 2, 3>>
    /\ taskHistory = <<3, 2, 1>>
    /\ tasks[1].status = "completed" /\ tasks[1].result # NoResult
    /\ tasks[2].status = "failed" /\ tasks[2].error # NoError
    /\ tasks[3].status = "processing"
    /\ stack = <<>>

\* No value is twice in the list.
NoValueTwice(list) == \A i, j \in DOMAIN list : list[i] = list[j] => i = j

(***************************************************************************)
(* C31  Aliases are a set: in the cumulative context every entity's        *)
(* aliases list contains no value twice, after any sequence of merges and  *)
(* whatever alias lists the backend returns.                               *)
(***************************************************************************)
AliasesAreSet ==
    \A e \in Range(previousResults.entities) : NoValueTwice(e.aliases)

\* Every strength the backend has returned so far is between 1 and 10.
BackendStrengthsInRange ==
    \A i \in DOMAIN responses :
        \A rel \in Range(responses[i].response.relationships) :
            rel.strength \in 1..STRENGTH_CAP

(***************************************************************************)
(* C32  Strength stays in range: if every relationship strength returned   *)
(* by the backend is between 1 and 10, then every relationship strength in *)
(* the cumulative context is between 1 and 10 after any sequence of merges *)
(* and resets.                                                             *)
(***************************************************************************)
StrengthInRange ==
    BackendStrengthsInRange =>
        \A rel \in Range(previousResults.relationships) :
            /\ 1 * Half <= rel.strength
            /\ rel.strength <= STRENGTH_CAP * Half

\* After a reset, a task answered with a relationship of strength 5 and two tasks
\* answered with the same relationship at strength 10 have completed and their
\* results are merged: the context holds the three entities of the first and the
\* relationship at 10, where 5 + 5 + 5 is 15.
StrengthInRangeWitness ==
    /\ BackendStrengthsInRange
    /\ stack = <<>>
    /\ handlers = {}
    /\ resets = 1
    /\ completionLog = <<1, 2, 3>>
    /\ Responded(1, ResponseThree)
    /\ Responded(2, ResponseRepeats)
    /\ Responded(3, ResponseRepeats)
    /\ Len(previousResults.entities) = 3
    /\ Len(previousResults.relationships) = 1
    /\ previousResults.relationships[1].strength = STRENGTH_CAP * Half

\* The first element of the list with the id.
FirstWithId(list, id) == list[findIndex(list, {x \in Range(list) : x.id = id})]

(***************************************************************************)
(* C33  Merge changes only aliases, summary and strength: when an incoming *)
(* entity's id already exists, the merged entry keeps the id, name and     *)
(* type of the previous entry (the first-seen name wins, also when the     *)
(* incoming name is a different string that normalizes to the same id);    *)
(* when an incoming relationship's id already exists, its source and       *)
(* target stay as they were.                                               *)
(***************************************************************************)
MergeKeepsIdentity ==
    [][(/\ Running("processNextTask", "merge")
        /\ currentTask # 0
        /\ tasks[currentTask].result # NoResult)
          => LET incoming == tasks[currentTask].result
             IN /\ \A before \in Range(previousResults.entities) :
                       \E after \in Range(previousResults'.entities) :
                           /\ after.id = before.id
                           /\ after.name = before.name
                           /\ after.type = before.type
                /\ \A before \in Range(previousResults.relationships) :
                       \E after \in Range(previousResults'.relationships) :
                           /\ after.id = before.id
                           /\ after.source = before.source
                           /\ after.target = before.target
                /\ \A after \in Range(previousResults'.entities) :
                       after.id \notin EntityIds(previousResults) =>
                           /\ after.name = FirstWithId(incoming.entities, after.id).name
                           /\ after.type = FirstWithId(incoming.entities, after.id).type
                /\ \A after \in Range(previousResults'.relationships) :
                       after.id \notin RelationshipIds(previousResults) =>
                           LET first == FirstWithId(incoming.relationships, after.id)
                           IN after.source = first.source /\ after.target = first.target]_vars

\* The context held Alice from a first task; a second task was answered with
\* "Alice" and "alice", which both normalize to the id of that entity, and with a
\* relationship twice; after the merge the entity is still named Alice and has
\* the aliases of all three, and the relationship is reinforced up to the cap.
MergeKeepsIdentityWitness ==
    /\ stack = <<>>
    /\ handlers = {}
    /\ resets = 0
    /\ completionLog = <<1, 2>>
    /\ Responded(1, ResponseThree)
    /\ Responded(2, ResponseTwice)
    /\ \E e \in Range(tasks[2].result.entities) :
          e.name = toLowerCase(Alice) /\ e.id = previousResults.entities[1].id
    /\ previousResults.entities[1].name = Alice
    /\ previousResults.entities[1].aliases = <<"x", "y">>
    /\ previousResults.entities[1].summary = <<"s", "s">>
    /\ previousResults.relationships[1].strength = STRENGTH_CAP * Half

(***************************************************************************)
(* C34  Referential integrity of the cumulative context: after any         *)
(* sequence of task completions, failures and resets (including a reset    *)
(* made while a task is processing), the source and the target of every    *)
(* relationship in the cumulative context are ids of entities present in   *)
(* the cumulative context.                                                 *)
(***************************************************************************)
ReferentialIntegrity ==
    \A rel \in Range(previousResults.relationships) :
        /\ rel.source \in EntityIds(previousResults)
        /\ rel.target \in EntityIds(previousResults)

\* Three tasks were added.  The first completed and was merged; the second one,
\* taken up by the first one's finally block (no caller can run in between),
\* was processing when the context was reset, and then
\* completed on a response of which three relationships name no entity.  The
\* context holds the second task's entities and its one relationship, and not
\* all of the first task's.
ReferentialIntegrityWitness ==
    /\ stack = <<>>
    /\ handlers = {}
    /\ resets = 1
    /\ Len(tasks) = 3
    /\ tasks[1].status = "completed" /\ Responded(1, ResponseThree)
    /\ tasks[2].status = "completed" /\ Responded(2, ResponseDangling)
    /\ startLog[2] = [task |-> 2, caller |-> "processNextTask"]
    /\ completionLog = <<2>>
    /\ EntityIds(previousResults) = EntityIds(tasks[2].result)
    /\ EntityIds(tasks[1].result) \cap EntityIds(previousResults)
           # EntityIds(tasks[1].result)
    /\ Len(previousResults.relationships) = 1

SubscribersCannotBreak ==
    /\ \A t \in DOMAIN tasks :
          tasks[t].status = "failed" => tasks[t].error \in BackendErrors
    /\ stack = <<>> =>
          /\ resets = 0 =>
                 \A t \in DOMAIN tasks :
                     tasks[t].result # NoResult =>
                         Contains(previousResults, tasks[t].result)
          /\ handlers = {} =>
                 /\ ~isProcessing
                 /\ WithStatus("pending") = {}
                 /\ WithStatus("processing") = {}

(***************************************************************************)
(* C37  Merge identities: for every context P, merge(P, empty result) has  *)
(* the same entities and relationships as P in the same order; for every   *)
(* result R, merge(empty result, R) has the same entities and              *)
(* relationships as R, with the same aliases, summaries and strengths.     *)
(***************************************************************************)
MergeIdentities ==
    mergeCall.pc = "returned" =>
        /\ Deref(heap, mergeCall.current) = EmptyResult =>
               Deref(heap, mergeCall.result) = Deref(heap, mergeCall.previous)
        /\ Deref(heap, mergeCall.previous) = EmptyResult =>
               Deref(heap, mergeCall.result) = Deref(heap, mergeCall.current)

====
